---- MODULE Spec2Model ----
(***************************************************************************)
(* Model of the traefik-oidc-auth gateway: the request state machine       *)
(* (ServeHTTP and its sub-flows), the lazily loaded discovery document and *)
(* the cookie-resident session.                                            *)
(*                                                                         *)
(* Strings are sequences of symbols (a symbol is a TLA+ string standing    *)
(* for one or more characters that are never split): "/logout-settings"    *)
(* is <<"/", "logout", "-settings">>, so strings.HasPrefix is the prefix   *)
(* relation on sequences and the empty Go string is <<>>.                  *)
(***************************************************************************)
EXTENDS Integers, Sequences, FiniteSets, TLC

VARIABLES
    cfg,        \* toa.Config, as left by New (read-only afterwards, except ValidIssuer / ValidAudience kept in toa)
    toa,        \* the shared mutable fields of TraefikOidcAuth: DiscoveryDocument, Jwks, ValidIssuer, ValidAudience
    now,        \* the clock the token expiry is compared with
    jar,        \* the client's cookie jar: the session cookie and the PKCE verifier cookie
    lastReq,    \* the request of the last completed ServeHTTP call
    lastResp,   \* what that call answered (status, Location, Set-Cookie, upstream call, provider calls)
    lastMode,   \* how the provider behaved towards that call
    pc,         \* concurrent discovery: each caller's position in EnsureOidcDiscoveryWithContext
    lock,       \* concurrent discovery: holder of toa.Lock (write lock), or "" when free
    fetches,    \* concurrent discovery: outcome of every discovery fetch issued, in order
    inflight,   \* concurrent discovery: callers with a discovery fetch in flight
    call,       \* single calls: the function called and its arguments
    ret,        \* single calls: what the call returned, NoRet while it has not
    cancelled,  \* cancellation: callers whose inbound request context is done
    metrics,    \* toa.Metrics: the counters of the MetricsCollector and the holder of its mutex
    rec         \* per caller: the Record calls of its request, the one it is at, the counters it read

vars == <<cfg, toa, now, jar, lastReq, lastResp, lastMode, pc, lock, fetches, inflight, call, ret, cancelled, metrics, rec>>

----------------------------------------------------------------------------
(* Bounds of the model *)

MaxTime == 2          \* the clock runs from 0 to MaxTime
MaxFetches == 2       \* discovery fetches a concurrent run may issue

----------------------------------------------------------------------------
(* Strings *)

HasPrefix(s, p) == Len(p) <= Len(s) /\ SubSeq(s, 1, Len(p)) = p

\* utils.getSchemeFromRequest
getSchemeFromRequest(req) ==
    IF req.xfProto # "" THEN req.xfProto
    ELSE IF req.tls THEN "https" ELSE "http"

\* the host FillHostSchemeFromRequest and GetFullHost take
RequestHost(req) == IF req.xfHost # "" THEN req.xfHost ELSE req.host

\* utils.GetFullHost: Sprintf("%s://%s", scheme, host)
GetFullHost(req) == <<getSchemeFromRequest(req) \o "://", RequestHost(req)>>

\* utils.EnsureAbsoluteUrl
EnsureAbsoluteUrl(req, url) ==
    IF HasPrefix(url, <<"http://">>) \/ HasPrefix(url, <<"https://">>)
    THEN url
    ELSE GetFullHost(req) \o (IF HasPrefix(url, <<"/">>) THEN url ELSE <<"/">> \o url)

\* the symbols regexp.QuoteMeta escapes, and those of the class [a-zA-Z0-9-_]
MetaSymbols == {"*", ".", "\\"}
WordSymbols == {"a", "-"}

\* regexp.QuoteMeta: a backslash before each metacharacter
RECURSIVE QuoteMeta(_)
QuoteMeta(s) ==
    IF s = <<>> THEN <<>>
    ELSE (IF Head(s) \in MetaSymbols THEN <<"\\", Head(s)>> ELSE <<Head(s)>>) \o QuoteMeta(Tail(s))

\* strings.ReplaceAll(escapedTemplate, "\\*", "[a-zA-Z0-9-_]+")
WordRun == "[a-zA-Z0-9-_]+"
RECURSIVE ReplaceStars(_)
ReplaceStars(s) ==
    IF Len(s) < 2 THEN s
    ELSE IF s[1] = "\\" /\ s[2] = "*" THEN <<WordRun>> \o ReplaceStars(SubSeq(s, 3, Len(s)))
    ELSE <<s[1]>> \o ReplaceStars(Tail(s))

\* a MatchString whose class matches the empty run too
RECURSIVE MatchStringStar(_, _)
MatchStringStar(p, v) ==
    IF p = <<>> THEN v = <<>>
    ELSE IF p[1] = "\\"
    THEN Len(p) >= 2 /\ v # <<>> /\ v[1] = p[2] /\ MatchStringStar(SubSeq(p, 3, Len(p)), Tail(v))
    ELSE IF p[1] = WordRun
    THEN \E n \in 0..Len(v) :
            /\ \A k \in 1..n : v[k] \in WordSymbols
            /\ MatchStringStar(Tail(p), SubSeq(v, n + 1, Len(v)))
    ELSE v # <<>> /\ v[1] = p[1] /\ MatchStringStar(Tail(p), Tail(v))

\* regex.MatchString of the pattern "^" + p + "$": an escaped symbol and a
\* plain symbol match themselves, the class with + a run of word symbols
RECURSIVE MatchString(_, _)
MatchString(p, v) ==
    IF p = <<>> THEN v = <<>>
    ELSE IF p[1] = "\\"
    THEN Len(p) >= 2 /\ v # <<>> /\ v[1] = p[2] /\ MatchString(SubSeq(p, 3, Len(p)), Tail(v))
    ELSE IF p[1] = WordRun
    THEN \E n \in 1..Len(v) :
            /\ \A k \in 1..n : v[k] \in WordSymbols
            /\ MatchString(Tail(p), SubSeq(v, n + 1, Len(v)))
    ELSE v # <<>> /\ v[1] = p[1] /\ MatchString(Tail(p), Tail(v))

\* utils.matchUriTemplate
matchUriTemplate(value, template) ==
    \/ value = template
    \/ template = <<"*">>
    \/ MatchString(ReplaceStars(QuoteMeta(template)), value)

\* a ValidateRedirectUri that admits every candidate
ValidateRedirectUriAdmittingAll(redirectUri, validUris) == [uri |-> redirectUri, err |-> ""]

\* utils.ValidateRedirectUri: [uri, err]
ValidateRedirectUri(redirectUri, validUris) ==
    IF redirectUri = <<>> THEN [uri |-> <<>>, err |-> ""]
    ELSE IF \E i \in DOMAIN validUris : matchUriTemplate(redirectUri, validUris[i])
         THEN [uri |-> redirectUri, err |-> ""]
         ELSE [uri |-> <<>>, err |-> "invalid redirect uri"]

----------------------------------------------------------------------------
(* Paths, hosts and URLs of the model *)

CallbackPath == <<"/", "oidc", "/", "callback">>   \* CreateConfig: CallbackUri
LoginPath    == <<"/", "oidc", "/", "login">>      \* CreateConfig: LoginUri
LogoutPath   == <<"/", "logout">>                  \* CreateConfig: LogoutUri
RootPath     == <<"/">>                            \* CreateConfig: PostLoginRedirectUri, PostLogoutRedirectUri
AppPath      == <<"/", "app">>                     \* a protected path
PublicPath   == <<"/", "public">>                  \* a path the bypass rule of CfgBypass matches
EvilUrl      == <<"https://", "evil">>             \* a URL on no allow-list

----------------------------------------------------------------------------
(* Tokens.  A JWT is [fmt, typ, sub, exp, key, iss, aud]; the empty string is NoToken *)

Users == {"alice", "bob"}
ProviderKeys == {"k1"}                \* the key ids of the provider's JWKS
SigningKeys == {"k1", "k2"}           \* the keys the provider signs with: k2 is not in its JWKS
ProviderIssuer == "https://idp"
ClientId == "gateway"

NoToken == [fmt |-> "", typ |-> "", sub |-> "", exp |-> 0, key |-> "", iss |-> "", aud |-> ""]

\* a token the provider issues to user u at time t: it expires one tick later
IssuedToken(typ, u, t, key) ==
    [fmt |-> "jwt", typ |-> typ, sub |-> u, exp |-> t + 1, key |-> key,
     iss |-> ProviderIssuer, aud |-> ClientId]

\* a token an attacker signs with a key of their own
ForgedToken == [fmt |-> "jwt", typ |-> "access", sub |-> "alice", exp |-> MaxTime + 2, key |-> "kx",
                iss |-> ProviderIssuer, aud |-> ClientId]

\* the refresh token of user u issued at t (opaque to the gateway)
RefreshTokenOf(u, t) ==
    [fmt |-> "opaque", typ |-> "refresh", sub |-> u, exp |-> t, key |-> "", iss |-> "", aud |-> ""]

\* oidc.OidcTokenResponse of the token endpoint for user u at time t
TokenResponse(u, t, key) ==
    [AccessToken  |-> IssuedToken("access", u, t, key),
     IdToken      |-> IssuedToken("id", u, t, key),
     RefreshToken |-> RefreshTokenOf(u, t)]

NoTokenResponse == [AccessToken |-> NoToken, IdToken |-> NoToken, RefreshToken |-> NoToken]

\* the claims of a token: a map from claim name to the set of its values
\* (a string claim is a singleton, an array claim the set of its elements)
RolesOf(u) == IF u = "alice" THEN {"admin", "user"} ELSE {"user"}
ClaimsOf(tok) == [n \in {"sub", "roles"} |-> IF n = "sub" THEN {tok.sub} ELSE RolesOf(tok.sub)]
NoClaims == [n \in {} |-> {}]

----------------------------------------------------------------------------
(* Sessions, the AEAD codec and the state parameter *)

\* session.SessionState; the nil session has Id ""
NoSession == [Id |-> "", AccessToken |-> NoToken, IdToken |-> NoToken,
              RefreshToken |-> NoToken, IsAuthorized |-> FALSE]

\* A cookie value: fmt "" is the empty string, "aead" base64(nonce + sealed pt)
\* under key, "notb64" a value that is not base64, "short" base64 of fewer
\* bytes than the nonce size.
NoCookie == [fmt |-> "", key |-> "", nonce |-> 0, pt |-> NoSession]
NoVerifierCookie == [fmt |-> "", key |-> "", nonce |-> 0, pt |-> ""]

\* utils.Encrypt with the nonce rand.Read drew
Encrypt(plaintext, secret, nonce) ==
    [fmt |-> "aead", key |-> secret, nonce |-> nonce, pt |-> plaintext]

\* Decrypt testing the plaintext, not the ciphertext, for the empty string
DecryptRejectingEmptyPlaintext(ciphertext, secret, empty) ==
    IF ciphertext.fmt = "" \/ ciphertext.pt = empty
    THEN [pt |-> empty, err |-> "ciphertext must not be an empty string"]
    ELSE IF ciphertext.fmt = "notb64" THEN [pt |-> empty, err |-> "illegal base64 data"]
    ELSE IF ciphertext.fmt = "short" THEN [pt |-> empty, err |-> "panic"]
    ELSE IF ciphertext.key # secret THEN [pt |-> empty, err |-> "cipher: message authentication failed"]
    ELSE [pt |-> ciphertext.pt, err |-> ""]

\* utils.Decrypt: [pt, err]; err "panic" is the slice-bounds panic of
\* ciphertext[:nonceSize] on an input shorter than the nonce
Decrypt(ciphertext, secret, empty) ==
    IF ciphertext.fmt = "" THEN [pt |-> empty, err |-> "ciphertext must not be an empty string"]
    ELSE IF ciphertext.fmt = "notb64" THEN [pt |-> empty, err |-> "illegal base64 data"]
    ELSE IF ciphertext.fmt = "short" THEN [pt |-> empty, err |-> "panic"]
    ELSE IF ciphertext.key # secret THEN [pt |-> empty, err |-> "cipher: message authentication failed"]
    ELSE [pt |-> ciphertext.pt, err |-> ""]

\* oidc.OidcState and its wire form: enc "" is a missing parameter, "b64json"
\* base64 of the JSON object, "junk" anything that does not decode
NoStateParam == [enc |-> "", Action |-> "", RedirectUrl |-> <<>>]
JunkStateParam == [enc |-> "junk", Action |-> "", RedirectUrl |-> <<>>]

\* oidc.EncodeState / base64(json.Marshal(state))
EncodeState(state) == [enc |-> "b64json", Action |-> state.Action, RedirectUrl |-> state.RedirectUrl]

\* oidc.DecodeState: [state, err]
DecodeState(base64State) ==
    IF base64State.enc = "b64json"
    THEN [state |-> [Action |-> base64State.Action, RedirectUrl |-> base64State.RedirectUrl], err |-> ""]
    ELSE [state |-> [Action |-> "", RedirectUrl |-> <<>>], err |-> "invalid state"]

----------------------------------------------------------------------------
(* Configuration *)

HeaderNames == {"X-Requested-With", "Sec-Fetch-Mode", "Content-Type", "Accept"}

\* CreateConfig: JavaScriptRequestDetection.Headers
DefaultJsHeaders ==
    [h \in {"X-Requested-With", "Sec-Fetch-Mode", "Content-Type"} |->
        IF h = "X-Requested-With" THEN <<(<<"XMLHttpRequest">>)>>
        ELSE IF h = "Sec-Fetch-Mode" THEN <<(<<"cors">>), (<<"same-origin">>)>>
        ELSE <<(<<"application/json">>)>>]

NoRule == [kind |-> "", arg |-> <<>>]     \* BypassAuthenticationRule == nil

\* CreateConfig, with the provider set, the fields New fills in (Scopes,
\* TokenValidation, the parsed CallbackURL) and the two allow-lists set to
\* ["/"], which CreateConfig leaves nil
CfgDefault ==
    [Secret |-> "MLFs4TT99kOOq8h3UAVRtYoCTDYXiRcZ",
     ClientId |-> ClientId,
     Scopes |-> <<"openid", "profile", "email">>,
     CallbackURL |-> [Scheme |-> "", Host |-> "", Path |-> CallbackPath],
     LoginUri |-> LoginPath,
     PostLoginRedirectUri |-> RootPath,
     ValidPostLoginRedirectUris |-> <<RootPath>>,
     LogoutUri |-> LogoutPath,
     PostLogoutRedirectUri |-> RootPath,
     ValidPostLogoutRedirectUris |-> <<RootPath>>,
     CookieNamePrefix |-> "TraefikOidcAuth",
     UnauthorizedBehavior |-> "Challenge",
     AssertClaims |-> <<>>,
     BypassAuthenticationRule |-> NoRule,
     JsHeaders |-> DefaultJsHeaders,
     UsePkceBool |-> FALSE,
     ValidateAudienceBool |-> TRUE,
     ValidateIssuerBool |-> TRUE,
     ValidAudience |-> "",
     ValidIssuer |-> "",
     TokenValidation |-> "AccessToken",
     AuthorizationHeaderName |-> "",
     Headers |-> <<>>,
     MetricsEnabled |-> FALSE]

\* claim assertions on the roles claim, the 401 page instead of the challenge, PKCE
CfgRoles ==
    [CfgDefault EXCEPT
        !.AssertClaims = <<[Name |-> "roles", AnyOf |-> {"admin"}, AllOf |-> {}]>>,
        !.UnauthorizedBehavior = "Unauthorized",
        !.UsePkceBool = TRUE,
        !.TokenValidation = "IdToken",
        !.Headers = <<[Name |-> "X-User", Value |-> "{{.claims.sub}}"]>>]

\* a bypass rule, an external authorization header, remote introspection
CfgBypass ==
    [CfgDefault EXCEPT
        !.AssertClaims = <<[Name |-> "roles", AnyOf |-> {}, AllOf |-> {"admin", "user"}]>>,
        !.BypassAuthenticationRule = [kind |-> "PathPrefix", arg |-> PublicPath],
        !.AuthorizationHeaderName = "CustomAuth",
        !.TokenValidation = "Introspection",
        !.Headers = <<[Name |-> "X-User", Value |-> "{{.claims.sub}}"], [Name |-> "X-Source", Value |-> ""]>>]

Configs == {CfgDefault, CfgRoles, CfgBypass}

----------------------------------------------------------------------------
(* The provider *)

\* How the provider behaves towards the calls of one request: "up" answers
\* every call correctly; "down" is a transport error; "status" answers 500;
\* "badbody" answers 200 with a body that does not decode; "rogue" answers
\* correctly except that it signs its tokens with a key its JWKS does not list;
\* "inactive" answers correctly except that its introspection endpoint
\* reports every token as not active.
ProviderModes == {"up", "down", "status", "badbody", "rogue", "inactive"}

\* oidc.OidcDiscovery; the nil pointer has nil = TRUE
NilDoc == [nil |-> TRUE, Issuer |-> "", AuthorizationEndpoint |-> <<>>, TokenEndpoint |-> <<>>,
           JWKSURI |-> <<>>, EndSessionEndpoint |-> <<>>, IntrospectionEndpoint |-> <<>>]

\* the zero document json.Decode leaves behind on a body that does not decode
ZeroDoc == [NilDoc EXCEPT !.nil = FALSE]

ProviderDoc ==
    [nil |-> FALSE, Issuer |-> ProviderIssuer,
     AuthorizationEndpoint |-> <<"https://", "idp", "/", "auth">>,
     TokenEndpoint |-> <<"https://", "idp", "/", "token">>,
     JWKSURI |-> <<"https://", "idp", "/", "certs">>,
     EndSessionEndpoint |-> <<"https://", "idp", "/", "logout">>,
     IntrospectionEndpoint |-> <<"https://", "idp", "/", "introspect">>]

\* GetOidcDiscoveryWithContext: [doc, err]
GetOidcDiscoveryWithContext(mode) ==
    IF mode = "down" THEN [doc |-> NilDoc, err |-> "HTTP GET error"]
    ELSE IF mode = "status" THEN [doc |-> NilDoc, err |-> "HTTP error - Status code"]
    ELSE IF mode = "badbody" THEN [doc |-> ZeroDoc, err |-> "Failed to decode OIDC discovery document"]
    ELSE [doc |-> ProviderDoc, err |-> ""]

----------------------------------------------------------------------------
(* The shared state of the gateway *)

\* &oidc.JwksHandler{}
NewJwks == [Url |-> <<>>, Keys |-> {}, loaded |-> FALSE]

\* the TraefikOidcAuth New returns: no discovery document, no Jwks handler
NewToa(c) ==
    [DiscoveryDocument |-> NilDoc, Jwks |-> NewJwks,
     ValidIssuer |-> c.ValidIssuer, ValidAudience |-> c.ValidAudience]

\* EnsureOidcDiscoveryWithContext, lines 67-68: a fresh Jwks handler
ResetJwks(t) == [t EXCEPT !.Jwks = NewJwks]

\* the defaults applied over what the configuration sets
ApplyDefaultsOverwriting(t, c, doc) ==
    [t EXCEPT !.ValidIssuer = doc.Issuer, !.ValidAudience = c.ClientId]

\* EnsureOidcDiscoveryWithContext, lines 89-94: the defaults of issuer and audience
ApplyDefaults(t, c, doc) ==
    [t EXCEPT !.ValidIssuer = IF @ = "" THEN doc.Issuer ELSE @,
              !.ValidAudience = IF @ = "" THEN c.ClientId ELSE @]

\* EnsureOidcDiscoveryWithContext, line 98
PublishDocument(t, doc) == [t EXCEPT !.DiscoveryDocument = doc]

\* EnsureOidcDiscoveryWithContext, line 99
PublishJwksUrl(t) == [t EXCEPT !.Jwks.Url = t.DiscoveryDocument.JWKSURI]

\* an EnsureOidcDiscoveryWithContext that caches what a failed fetch returned
EnsureOidcDiscoveryCachingFailure(t, c, mode) ==
    IF ~t.DiscoveryDocument.nil THEN [t |-> t, err |-> "", calls |-> <<>>]
    ELSE [t |-> PublishDocument(ResetJwks(t), [GetOidcDiscoveryWithContext(mode).doc EXCEPT !.nil = FALSE]),
          err |-> GetOidcDiscoveryWithContext(mode).err,
          calls |-> <<"discovery">>]

\* EnsureOidcDiscoveryWithContext run by one caller alone: [t, err, calls]
EnsureOidcDiscovery(t, c, mode) ==
    IF ~t.DiscoveryDocument.nil THEN [t |-> t, err |-> "", calls |-> <<>>]
    ELSE LET r == GetOidcDiscoveryWithContext(mode) IN
         IF r.err # ""
         THEN [t |-> ResetJwks(t), err |-> r.err, calls |-> <<"discovery">>]
         ELSE [t |-> PublishJwksUrl(PublishDocument(ApplyDefaults(ResetJwks(t), c, r.doc), r.doc)),
               err |-> "", calls |-> <<"discovery">>]

----------------------------------------------------------------------------
(* JWKS and token validation *)

\* oidc.JwksHandler.EnsureLoaded(force): [j, err, calls].  The key set is
\* fetched from j.Url when it is not loaded yet or when force is set.
EnsureLoaded(j, force, mode) ==
    IF j.loaded /\ ~force THEN [j |-> j, err |-> "", calls |-> <<>>]
    ELSE IF j.Url = <<>> THEN [j |-> j, err |-> "unsupported protocol scheme", calls |-> <<>>]
    ELSE IF mode \in {"down", "status", "badbody"}
         THEN [j |-> j, err |-> "jwks fetch failed", calls |-> <<"jwks">>]
         ELSE [j |-> [j EXCEPT !.Keys = ProviderKeys, !.loaded = TRUE], err |-> "", calls |-> <<"jwks">>]

\* parser.ParseWithClaims(tokenString, claims, toa.Jwks.Keyfunc) with the
\* options of validateTokenLocallyWithContext: the error, "" when the token parses
ParseWithClaims(t, c, tok, time) ==
    IF tok.fmt # "jwt" THEN "token is malformed"
    ELSE IF tok.key \notin t.Jwks.Keys THEN "token is unverifiable"
    ELSE IF time >= tok.exp THEN "token has invalid claims: token is expired"
    ELSE IF c.ValidateAudienceBool /\ tok.aud # t.ValidAudience THEN "token has invalid claims: token has invalid audience"
    ELSE IF c.ValidateIssuerBool /\ tok.iss # t.ValidIssuer THEN "token has invalid claims: token has invalid issuer"
    ELSE ""

\* what validateTokenLocallyWithContext returns, [ok, claims, err], with the
\* gateway's state t after it, the provider calls made, and the numbers of
\* parse attempts and forced JWKS reloads of the call
ValidationResult(ok, err, tok, tt, calls, parses, reloads) ==
    [ok |-> ok, claims |-> IF ok THEN ClaimsOf(tok) ELSE NoClaims, err |-> err, t |-> tt, calls |-> calls,
     parses |-> parses, reloads |-> reloads]

\* a retry that, when the second parse fails too, reloads and parses once more
SecondParseRetrying(t2, c, tok, mode, time, calls) ==
    IF ParseWithClaims(t2, c, tok, time) = "" THEN ValidationResult(TRUE, "", tok, t2, calls, 2, 1)
    ELSE ValidationResult(FALSE, ParseWithClaims(t2, c, tok, time), tok,
                          [t2 EXCEPT !.Jwks = EnsureLoaded(t2.Jwks, TRUE, mode).j],
                          calls \o EnsureLoaded(t2.Jwks, TRUE, mode).calls, 3, 2)

\* a retry that reports every failure of the second parse as the same error
SecondParseGenericError(t2, c, tok, mode, time, calls) ==
    IF ParseWithClaims(t2, c, tok, time) = "" THEN ValidationResult(TRUE, "", tok, t2, calls, 2, 1)
    ELSE ValidationResult(FALSE, "token is not valid", tok, t2, calls, 2, 1)

\* validateTokenLocallyWithContext, lines 436-452: the parse after the forced
\* reload, whose error is returned as it is
SecondParse(t2, c, tok, mode, time, calls) ==
    IF ParseWithClaims(t2, c, tok, time) = "" THEN ValidationResult(TRUE, "", tok, t2, calls, 2, 1)
    ELSE ValidationResult(FALSE, ParseWithClaims(t2, c, tok, time), tok, t2, calls, 2, 1)

\* validateTokenLocallyWithContext (toa.Tracer is nil): [ok, claims, err, t, calls, parses, reloads]
validateTokenLocally(t, c, tok, mode, time) ==
    LET \* lines 430-433: the forced reload l2
        Reload(t1, l1, l2) ==
            IF l2.err # "" THEN ValidationResult(FALSE, l2.err, tok, t1, l1.calls \o l2.calls, 1, 1)
            ELSE SecondParse([t1 EXCEPT !.Jwks = l2.j], c, tok, mode, time, l1.calls \o l2.calls)
        \* lines 391-412: the first parse, the keys loaded by l1
        Parse(t1, l1) ==
            IF l1.err # "" THEN ValidationResult(FALSE, l1.err, tok, t1, l1.calls, 0, 0)
            ELSE IF ParseWithClaims(t1, c, tok, time) = "" THEN ValidationResult(TRUE, "", tok, t1, l1.calls, 1, 0)
            ELSE Reload(t1, l1, EnsureLoaded(t1.Jwks, TRUE, mode))
        Load(l1) == Parse([t EXCEPT !.Jwks = l1.j], l1)
    IN  Load(EnsureLoaded(t.Jwks, FALSE, mode))

\* whether the provider holds the token to be one of its own and unexpired
ProviderActive(tok, time) == tok.fmt = "jwt" /\ tok.key \in SigningKeys /\ time < tok.exp

\* The answer of the introspection endpoint as the HTTP client and the JSON
\* decoder see it: err is the transport error, json whether the body decodes
\* to an object, active the `active` member of that object ("absent" when it
\* has none, "null", a boolean "true"/"false", or a value of another type),
\* claims the other members.
ActiveValues == {"absent", "null", "true", "false", "string", "number"}
IntrospectionResponse(tok, mode, time) ==
    IF mode = "down" THEN [err |-> "introspection request failed", json |-> FALSE, active |-> "absent", claims |-> NoClaims]
    ELSE IF mode = "badbody" THEN [err |-> "", json |-> FALSE, active |-> "absent", claims |-> NoClaims]
    ELSE IF mode = "status" THEN [err |-> "", json |-> TRUE, active |-> "absent", claims |-> NoClaims]
    ELSE IF mode # "inactive" /\ ProviderActive(tok, time)
         THEN [err |-> "", json |-> TRUE, active |-> "true", claims |-> ClaimsOf(tok)]
    ELSE [err |-> "", json |-> TRUE, active |-> "false", claims |-> NoClaims]

\* introspectTokenWithContext, lines 531-577, on the answer resp:
\* [ok, claims, err, t, calls, panic].  The body is decoded whatever the
\* status; a member `active` that is present and not null is asserted to be
\* a bool without a check, which panics for any other type.
DecodeIntrospection(t, resp) ==
    LET R(ok, claims, err, panic) ==
            [ok |-> ok, claims |-> claims, err |-> err, t |-> t, calls |-> <<"introspect">>, panic |-> panic]
    IN  IF resp.err # "" THEN R(FALSE, NoClaims, resp.err, FALSE)
        ELSE IF ~resp.json THEN R(FALSE, NoClaims, "invalid character", FALSE)
        ELSE IF resp.active \in {"absent", "null"} THEN R(FALSE, NoClaims, "received invalid introspection response", FALSE)
        ELSE IF resp.active \in {"true", "false"} THEN R(resp.active = "true", resp.claims, "", FALSE)
        ELSE R(FALSE, NoClaims, "", TRUE)

\* introspectTokenWithContext against the provider
introspectToken(t, c, tok, mode, time) == DecodeIntrospection(t, IntrospectionResponse(tok, mode, time))

\* the key the provider signs with
SigningKey(mode) == IF mode = "rogue" THEN "k2" ELSE "k1"

\* renewToken: [token, err, calls]
renewToken(refreshToken, mode, time) ==
    IF mode \in {"down", "status", "badbody"}
    THEN [token |-> NoTokenResponse, err |-> "renewToken failed", calls |-> <<"refresh">>]
    ELSE IF refreshToken.typ = "refresh" /\ refreshToken.sub \in Users
         THEN [token |-> TokenResponse(refreshToken.sub, time, SigningKey(mode)), err |-> "", calls |-> <<"refresh">>]
         ELSE [token |-> NoTokenResponse, err |-> "invalid status code", calls |-> <<"refresh">>]

\* PKCE: the S256 challenge of a verifier
S256(verifier) == "S256(" \o verifier \o ")"

\* An authorization code: the user the provider authenticated and the
\* code_challenge of the authorization request; the empty string is NoCode,
\* a code the provider never issued has user "".
NoCode == [present |-> FALSE, user |-> "", challenge |-> ""]

\* exchangeAuthCode: [token, err, calls, verifier]; verifier is the
\* code_verifier sent to the token endpoint
exchangeAuthCode(c, req, authCode, mode, time) ==
    LET d == Decrypt(req.verifier, c.Secret, "")
        sent == IF c.UsePkceBool THEN d.pt ELSE ""
        accepted == /\ authCode.user \in Users
                    /\ (authCode.challenge = "" \/ authCode.challenge = S256(sent))
    IN  IF c.UsePkceBool /\ req.verifier.fmt = ""
        THEN [token |-> NoTokenResponse, err |-> "http: named cookie not present", calls |-> <<>>, verifier |-> ""]
        ELSE IF c.UsePkceBool /\ d.err # ""
        THEN [token |-> NoTokenResponse, err |-> d.err, calls |-> <<>>, verifier |-> ""]
        ELSE IF mode \in {"down", "badbody"}
        THEN [token |-> NoTokenResponse, err |-> "token request failed", calls |-> <<"token">>, verifier |-> sent]
        ELSE IF mode = "status" \/ ~accepted
        THEN [token |-> NoTokenResponse, err |-> "invalid status code", calls |-> <<"token">>, verifier |-> sent]
        ELSE [token |-> TokenResponse(authCode.user, time, SigningKey(mode)), err |-> "", calls |-> <<"token">>, verifier |-> sent]

----------------------------------------------------------------------------
(* Requests and responses *)

NoHeaders == [h \in HeaderNames |-> <<>>]

\* the header names a configuration may list under Headers, and a request
\* that carries none of them
UpstreamHeaderNames == {"X-User", "X-Source"}
NoUpstreamHeaders == [h \in UpstreamHeaderNames |-> <<>>]

\* An inbound request.  path is URL.Path; state, code, redirect_uri,
\* post_logout_redirect_uri and prompt are the query parameters; session and
\* verifier the cookies with the gateway's names; cookies the other pairs of
\* the Cookie header, which follow them; auth the token in the external
\* authorization header; hdr the detection headers; custom the values of
\* the headers a configuration may list for the upstream.
BaseReq ==
    [path |-> AppPath, state |-> NoStateParam, code |-> NoCode, redirect_uri |-> <<>>,
     post_logout_redirect_uri |-> <<>>, prompt |-> "",
     session |-> NoCookie, verifier |-> NoVerifierCookie, cookies |-> <<>>, auth |-> NoToken,
     hdr |-> NoHeaders, custom |-> NoUpstreamHeaders, host |-> "app", xfHost |-> "", xfProto |-> "", tls |-> TRUE]

HasQuery(req) ==
    \/ req.state # NoStateParam \/ req.code # NoCode \/ req.redirect_uri # <<>>
    \/ req.post_logout_redirect_uri # <<>> \/ req.prompt # ""

\* req.RequestURI: the path and, when there is one, the raw query
RequestURI(req) == req.path \o (IF HasQuery(req) THEN <<"?", "rawquery">> ELSE <<>>)

\* the query of a Location the gateway composes
NoQuery ==
    [response_type |-> "", scope |-> <<>>, client_id |-> "", redirect_uri |-> <<>>,
     state |-> NoStateParam, prompt |-> "", code_challenge_method |-> "", code_challenge |-> "",
     post_logout_redirect_uri |-> <<>>, id_token_hint |-> NoToken]

NoLoc == [base |-> <<>>, q |-> NoQuery]

NoSet == [op |-> "", val |-> NoCookie]
NoSetVerifier == [op |-> "", val |-> NoVerifierCookie]

\* The http.ResponseWriter before anything is written, with what the call did
\* besides: forwarded (next.ServeHTTP was called), panic (the handler
\* panicked), calls (the provider calls made, in order), exchanged (a token
\* exchange answered with tokens), sent (the code_verifier of the exchange),
\* flow (the sub-flow that answered), session (the session the decision was
\* taken on), valid (how the validation of the token ended: "" when none
\* was made, "ok", "failed" on an error, "inactive" when introspection
\* answered active=false), claims (the claims the validation returned),
\* upstream (the cookies of the forwarded request), headers (its values
\* of the headers a configuration may list) and recorded (the Record
\* methods of toa.Metrics the handler called after RecordRequest, in order).
NoResp ==
    [status |-> 0, loc |-> NoLoc, setSession |-> NoSet, setVerifier |-> NoSetVerifier,
     forwarded |-> FALSE, panic |-> FALSE, calls |-> <<>>, exchanged |-> FALSE, sent |-> "",
     flow |-> "", session |-> NoSession, valid |-> "", claims |-> NoClaims, upstream |-> <<>>,
     headers |-> NoUpstreamHeaders, carried |-> FALSE, recorded |-> <<>>]

\* if toa.Metrics != nil { toa.Metrics.Record...() }
Record(c, rw, methods) == IF c.MetricsEnabled THEN [rw EXCEPT !.recorded = @ \o methods] ELSE rw

\* http.Error
HttpError(rw, code) == [rw EXCEPT !.status = code]

\* http.Redirect with http.StatusFound
HttpRedirect(rw, loc) == [rw EXCEPT !.status = 302, !.loc = loc]

\* errorPages.WriteError: the page or JSON body with the status of data["statusCode"]
WriteError(rw, statusCode) == [rw EXCEPT !.status = statusCode]

\* strings.Join(toa.Config.Scopes, " ")
RECURSIVE JoinScopes(_)
JoinScopes(scopes) ==
    IF Len(scopes) = 0 THEN <<>>
    ELSE IF Len(scopes) = 1 THEN <<scopes[1]>>
    ELSE <<scopes[1], " ">> \o JoinScopes(Tail(scopes))

----------------------------------------------------------------------------
(* Classification of programmatic requests *)

\* strings.ToLower on the symbols of the model
Lower(sym) ==
    CASE sym = "XMLHttpRequest" -> "xmlhttprequest"
      [] sym = "CORS" -> "cors"
      [] sym = "Application/JSON" -> "application/json"
      [] OTHER -> sym

ToLower(s) == [i \in DOMAIN s |-> Lower(s[i])]

\* strings.Contains
Contains(s, sub) ==
    \E i \in 1..(Len(s) + 1) : i + Len(sub) - 1 <= Len(s) /\ SubSeq(s, i, i + Len(sub) - 1) = sub

\* utils.IsXHRRequestWithHeaders; headers is nil when its domain is empty
IsXHRRequestWithHeaders(req, headers) ==
    IF DOMAIN headers = {}
    THEN \/ req.hdr["X-Requested-With"] = <<"XMLHttpRequest">>
         \/ /\ Contains(req.hdr["Accept"], <<"application/json">>)
            /\ ~Contains(req.hdr["Accept"], <<"text/html">>)
    ELSE \E h \in DOMAIN headers :
            /\ req.hdr[h] # <<>>
            /\ ~(h = "Accept" /\ Contains(req.hdr[h], <<"text/html">>))
            /\ \E i \in DOMAIN headers[h] : Contains(ToLower(req.hdr[h]), ToLower(headers[h][i]))

----------------------------------------------------------------------------
(* The Cookie header.  A pair is [name, value], both sequences of symbols. *)

\* the names of the gateway's session and code verifier cookies
SessionCookieName(c) == <<c.CookieNamePrefix, ".Session">>
CodeVerifierCookieName(c) == <<c.CookieNamePrefix, ".CodeVerifier">>

\* the pairs of the Cookie header of a request
CookieHeader(c, req) ==
    (IF req.session = NoCookie THEN <<>> ELSE <<[name |-> SessionCookieName(c), value |-> <<"sealed">>]>>)
    \o (IF req.verifier = NoVerifierCookie THEN <<>> ELSE <<[name |-> CodeVerifierCookieName(c), value |-> <<"sealed">>]>>)
    \o req.cookies

\* net/http: a cookie name is a token, a cookie value has no double quote,
\* semicolon or backslash
ValidCookieName(name) == name # <<>> /\ \A i \in DOMAIN name : name[i] \notin {" ", "(", "\"", ","}
ValidCookieValue(value) == \A i \in DOMAIN value : value[i] \notin {"\"", ";", "\\"}

\* req.Cookies(): the pairs net/http parses, in their order; a pair with an
\* invalid name or value is skipped.  The values given are not quoted.
RECURSIVE Cookies(_)
Cookies(pairs) ==
    IF pairs = <<>> THEN <<>>
    ELSE (IF ValidCookieName(Head(pairs).name) /\ ValidCookieValue(Head(pairs).value)
          THEN <<Head(pairs)>> ELSE <<>>) \o Cookies(Tail(pairs))

\* req.AddCookie: the pair as it is written to the Cookie header; a value
\* with a space or a comma is quoted
AddCookie(pair) ==
    IF \E i \in DOMAIN pair.value : pair.value[i] \in {" ", ","}
    THEN [pair EXCEPT !.value = <<"\"">> \o @ \o <<"\"">>]
    ELSE pair

\* the loop of sanitizeForUpstream, lines 345-349, on the parsed cookies
RECURSIVE keepCookies(_, _)
keepCookies(c, cookies) ==
    IF cookies = <<>> THEN <<>>
    ELSE (IF ~HasPrefix(Head(cookies).name, <<c.CookieNamePrefix>>) THEN <<Head(cookies)>> ELSE <<>>)
         \o keepCookies(c, Tail(cookies))

\* a sanitizeForUpstream that leaves the Cookie header as it came
sanitizeForUpstreamKeepingAll(c, pairs) == pairs

\* sanitizeForUpstream: the pairs of the Cookie header of the forwarded request
sanitizeForUpstream(c, pairs) ==
    LET kept == keepCookies(c, Cookies(pairs))
    IN  [i \in DOMAIN kept |-> AddCookie(kept[i])]

----------------------------------------------------------------------------
(* Authorization, bypass rule, session storage *)

\* one ClaimAssertion against the claims
AssertionHolds(a, claims) ==
    IF a.AnyOf = {} /\ a.AllOf = {} THEN TRUE
    ELSE /\ a.Name \in DOMAIN claims
         /\ (a.AnyOf = {} \/ claims[a.Name] \cap a.AnyOf # {})
         /\ a.AllOf \subseteq claims[a.Name]

\* the evaluator taking the disjunction of the assertions
isAuthorizedAnyAssertion(c, claims) == \E i \in DOMAIN c.AssertClaims : AssertionHolds(c.AssertClaims[i], claims)

\* isAuthorized(toa.logger, toa.Config.Authorization, claims)
isAuthorized(c, claims) == \A i \in DOMAIN c.AssertClaims : AssertionHolds(c.AssertClaims[i], claims)

\* rules.RequestCondition.Match; a nil rule is never consulted
Match(rule, req) == rule.kind = "PathPrefix" /\ HasPrefix(req.path, rule.arg)

\* storeSessionAndAttachCookie: the session, serialized and encrypted under
\* the secret, as the session cookie
storeSessionAndAttachCookie(rw, c, session, nonce) ==
    [rw EXCEPT !.setSession = [op |-> "set", val |-> Encrypt(session, c.Secret, nonce)]]

\* clearChunkedCookie(toa.Config, rw, req, getSessionCookieName(toa.Config))
clearChunkedCookie(rw) == [rw EXCEPT !.setSession = [op |-> "clear", val |-> NoCookie]]

\* the token the configured TokenValidation checks, of a session
UsedToken(c, session) == IF c.TokenValidation = "IdToken" THEN session.IdToken ELSE session.AccessToken

\* how a validation [ok, claims, err, t, calls] ended
Outcome(v) == IF v.err # "" THEN "failed" ELSE IF v.ok THEN "ok" ELSE "inactive"

\* validation of a session's token by the configured method: [ok, claims, err, t, calls]
validateSession(t, c, session, mode, time) ==
    IF c.TokenValidation = "Introspection"
    THEN introspectToken(t, c, UsedToken(c, session), mode, time)
    ELSE validateTokenLocally(t, c, UsedToken(c, session), mode, time)

\* getSessionForRequest: [session, update, claims, err, t, calls, valid]; carried
\* is the IsAuthorized an external session comes with, which nothing fixes.  The
\* session comes from the external authorization header when one is
\* configured and sent, else from the session cookie; its token must validate,
\* after one renewal with the refresh token when it does not.
getSessionForRequest(t, c, req, mode, time, carried) ==
    LET external == c.AuthorizationHeaderName # "" /\ req.auth # NoToken
        fail(err, tt, calls, valid) == [session |-> NoSession, update |-> FALSE, claims |-> NoClaims,
                                        err |-> err, t |-> tt, calls |-> calls, valid |-> valid]
        \* the renewed session s1, validated as v1
        Renewed(s1, v0, r, v1) ==
            IF v1.err = "" /\ v1.ok
            THEN [session |-> s1, update |-> TRUE, claims |-> v1.claims, err |-> "", t |-> v1.t,
                  calls |-> v0.calls \o r.calls \o v1.calls, valid |-> "ok"]
            ELSE fail(IF v1.err # "" THEN v1.err ELSE "token is not active", v1.t,
                      v0.calls \o r.calls \o v1.calls, Outcome(v1))
        Revalidate(s1, v0, r) == Renewed(s1, v0, r, validateSession(v0.t, c, s1, mode, time))
        \* the answer r of the token endpoint to the refresh token of s0
        Renew(s0, v0, r) ==
            IF r.err # "" THEN fail(r.err, v0.t, v0.calls \o r.calls, Outcome(v0))
            ELSE Revalidate([s0 EXCEPT !.AccessToken = r.token.AccessToken, !.IdToken = r.token.IdToken,
                                       !.RefreshToken = r.token.RefreshToken], v0, r)
        \* the session s0 as presented, validated as v0
        Validated(s0, v0) ==
            IF v0.err = "" /\ v0.ok
            THEN [session |-> s0, update |-> FALSE, claims |-> v0.claims, err |-> "", t |-> v0.t,
                  calls |-> v0.calls, valid |-> "ok"]
            ELSE IF s0.RefreshToken = NoToken
            THEN fail(IF v0.err # "" THEN v0.err ELSE "token is not active", v0.t, v0.calls, Outcome(v0))
            ELSE Renew(s0, v0, renewToken(s0.RefreshToken, mode, time))
        Validate(s0) == Validated(s0, validateSession(t, c, s0, mode, time))
        FromCookie(d) == IF d.err # "" THEN fail(d.err, t, <<>>, "") ELSE Validate(d.pt)
    IN  IF external
        THEN Validate([Id |-> "AuthorizationHeader", AccessToken |-> req.auth, IdToken |-> req.auth,
                       RefreshToken |-> NoToken, IsAuthorized |-> carried])
        ELSE FromCookie(Decrypt(req.session, c.Secret, NoSession))

----------------------------------------------------------------------------
(* The sub-flows of ServeHTTP.  Each takes the response writer rw as it
   stands and returns it as the sub-flow leaves it. *)

\* utils.UrlIsAbsolute
UrlIsAbsolute(u) == u.Scheme # "" /\ u.Host # ""

\* GetAbsoluteCallbackURL(req).String()
GetAbsoluteCallbackURL(c, req) ==
    IF UrlIsAbsolute(c.CallbackURL)
    THEN <<c.CallbackURL.Scheme \o "://", c.CallbackURL.Host>> \o c.CallbackURL.Path
    ELSE GetFullHost(req) \o c.CallbackURL.Path

\* an isCallbackRequest that compares the path alone
isCallbackRequestPathOnly(c, req) == req.path = c.CallbackURL.Path

\* isCallbackRequest
isCallbackRequest(c, req) ==
    /\ req.path = c.CallbackURL.Path
    /\ UrlIsAbsolute(c.CallbackURL) =>
          /\ getSchemeFromRequest(req) = c.CallbackURL.Scheme
          /\ RequestHost(req) = c.CallbackURL.Host

\* toa.Config.LoginUri != "" && strings.HasPrefix(req.RequestURI, toa.Config.LoginUri)
IsLoginRequest(c, req) == c.LoginUri # <<>> /\ HasPrefix(RequestURI(req), c.LoginUri)

\* a handleUnauthorized that writes nothing and lets the request through
handleUnauthorizedFallsThrough(rw) == [rw EXCEPT !.forwarded = TRUE]

\* a handleUnauthorized that answers 401, as handleUnauthenticated does
handleUnauthorizedAs401(rw) == [WriteError(rw, 401) EXCEPT !.flow = "unauthorized"]

\* handleUnauthorized
handleUnauthorized(rw) == [WriteError(rw, 403) EXCEPT !.flow = "unauthorized"]

\* redirectToProvider; rnd holds what the random source yields (the PKCE
\* verifier and the AEAD nonce)
redirectToProvider(rw, t, c, req, rnd) ==
    LET v == ValidateRedirectUri(req.redirect_uri, c.ValidPostLoginRedirectUris)
        redirectUrl ==
            IF IsLoginRequest(c, req) /\ v.uri # <<>> THEN v.uri
            ELSE IF c.PostLoginRedirectUri # <<>> THEN EnsureAbsoluteUrl(req, c.PostLoginRedirectUri)
            ELSE IF IsLoginRequest(c, req) THEN GetFullHost(req)
            ELSE GetFullHost(req) \o RequestURI(req)
        q0 == [NoQuery EXCEPT
                  !.response_type = "code",
                  !.scope = JoinScopes(c.Scopes),
                  !.client_id = c.ClientId,
                  !.redirect_uri = GetAbsoluteCallbackURL(c, req),
                  !.state = EncodeState([Action |-> "Login", RedirectUrl |-> redirectUrl]),
                  !.prompt = req.prompt]
        q1 == IF c.UsePkceBool
              THEN [q0 EXCEPT !.code_challenge_method = "S256", !.code_challenge = S256(rnd.verifier)]
              ELSE q0
        rw1 == IF c.UsePkceBool
               THEN [rw EXCEPT !.setVerifier = [op |-> "set", val |-> Encrypt(rnd.verifier, c.Secret, rnd.nonce)]]
               ELSE rw
    IN  IF v.err # "" THEN [HttpError(rw, 400) EXCEPT !.flow = "redirectToProvider"]
        ELSE [HttpRedirect(rw1, [base |-> t.DiscoveryDocument.AuthorizationEndpoint, q |-> q1])
                 EXCEPT !.flow = "redirectToProvider"]

\* a handleUnauthenticated that answers with an internal error
handleUnauthenticatedAsError(rw, t, c, req, rnd) ==
    [HttpError(rw, 500) EXCEPT !.flow = "unauthenticated"]

\* a handleUnauthenticated that looks at UnauthorizedBehavior before it
\* classifies the request
handleUnauthenticatedChallengeFirst(rw, t, c, req, rnd) ==
    IF c.UnauthorizedBehavior = "Challenge"
    THEN redirectToProvider(rw, t, c, req, rnd)
    ELSE [WriteError(rw, 401) EXCEPT !.flow = "unauthenticated"]

\* handleUnauthenticated
handleUnauthenticated(rw, t, c, req, rnd) ==
    IF IsXHRRequestWithHeaders(req, c.JsHeaders)
    THEN [WriteError(rw, 401) EXCEPT !.flow = "unauthenticated"]
    ELSE IF c.UnauthorizedBehavior = "Challenge"
    THEN redirectToProvider(rw, t, c, req, rnd)
    ELSE [WriteError(rw, 401) EXCEPT !.flow = "unauthenticated"]

\* a handleLogout that redirects to the end-session endpoint without a query
handleLogoutWithoutQuery(rw, t, c, req, session) ==
    [HttpRedirect(rw, [base |-> t.DiscoveryDocument.EndSessionEndpoint, q |-> NoQuery])
        EXCEPT !.flow = "logout"]

\* a handleLogout that expires the session cookie itself
handleLogoutClearingCookie(rw, t, c, req, session) ==
    clearChunkedCookie(handleLogoutWithoutQuery(rw, t, c, req, session))

\* handleLogout
handleLogout(rw, t, c, req, session) ==
    LET fromQuery == IF req.redirect_uri # <<>> THEN req.redirect_uri ELSE req.post_logout_redirect_uri
        v == ValidateRedirectUri(fromQuery, c.ValidPostLogoutRedirectUris)
        redirectUri == IF fromQuery # <<>> /\ v.uri # <<>>
                       THEN EnsureAbsoluteUrl(req, v.uri)
                       ELSE EnsureAbsoluteUrl(req, c.PostLogoutRedirectUri)
        q == [NoQuery EXCEPT
                 !.client_id = c.ClientId,
                 !.post_logout_redirect_uri = GetAbsoluteCallbackURL(c, req),
                 !.state = EncodeState([Action |-> "Logout", RedirectUrl |-> redirectUri]),
                 !.id_token_hint = session.IdToken]
        rwm == Record(c, rw, <<"Logout", "SessionDestroyed">>)
    IN  IF fromQuery # <<>> /\ v.err # "" THEN [HttpError(rwm, 400) EXCEPT !.flow = "logout"]
        ELSE [HttpRedirect(rwm, [base |-> t.DiscoveryDocument.EndSessionEndpoint, q |-> q])
                 EXCEPT !.flow = "logout"]

\* the expiring Set-Cookie of the code verifier cookie, handleCallback lines 514-524
ClearVerifierCookie(rw) == [rw EXCEPT !.setVerifier = [op |-> "clear", val |-> NoVerifierCookie]]

\* a state check without the error returns of lines 438-449
CallbackStateUnchecked(req) ==
    [state |-> [Action |-> req.state.Action, RedirectUrl |-> req.state.RedirectUrl], err |-> ""]

\* handleCallback, lines 437-449: the state parameter, decoded: [state, err]
CallbackState(req) ==
    IF req.state.enc = ""
    THEN [state |-> [Action |-> "", RedirectUrl |-> <<>>], err |-> "State is missing"]
    ELSE DecodeState(req.state)

\* lines 504-524 without the call of line 512
CallbackSessionNotStored(rw, c, session, nonce) ==
    ClearVerifierCookie([rw EXCEPT !.session = session])

\* lines 504-512 without the Set-Cookie of lines 514-524
CallbackSessionKeepingVerifier(rw, c, session, nonce) ==
    storeSessionAndAttachCookie([rw EXCEPT !.session = session], c, session, nonce)

\* handleCallback, lines 504-524: the new session is stored in the session
\* cookie and the code verifier cookie expired
CallbackSession(rw, c, session, nonce) ==
    ClearVerifierCookie(storeSessionAndAttachCookie([rw EXCEPT !.session = session], c, session, nonce))

\* lines 537-542 without the call of line 541
CallbackLogoutKeepingCookie(rw) == rw

\* handleCallback, lines 537-542: the Logout action clears the session cookie
CallbackLogout(rw) == clearChunkedCookie(rw)

\* handleCallback: [rw, t]
handleCallback(rw, t, c, req, mode, time, rnd) ==
    LET done(w, tt) == [rw |-> [w EXCEPT !.flow = "callback"], t |-> tt]
        target(redirectUrl) ==
            IF redirectUrl # <<>> THEN EnsureAbsoluteUrl(req, redirectUrl)
            ELSE EnsureAbsoluteUrl(req, c.PostLoginRedirectUri)
        \* lines 526-546: the authorization of the stored session is looked at
        Store(rws, session, v, redirectUrl) ==
            IF ~session.IsAuthorized THEN done(handleUnauthorized(rws), v.t)
            ELSE done(HttpRedirect(rws, [base |-> target(redirectUrl), q |-> NoQuery]), v.t)
        Session(rwv, session, v, redirectUrl) ==
            Store(CallbackSession(rwv, c, session, rnd.nonce), session, v, redirectUrl)
        \* lines 494-503: the validation v of the token of the exchange x
        Validated(rwx, x, v, redirectUrl) ==
            IF v.err # ""
            THEN done(HttpError([rwx EXCEPT !.calls = @ \o v.calls, !.valid = Outcome(v)], 500), v.t)
            ELSE Session([rwx EXCEPT !.calls = @ \o v.calls, !.valid = Outcome(v), !.claims = v.claims],
                         [Id |-> "sid", AccessToken |-> x.token.AccessToken, IdToken |-> x.token.IdToken,
                          RefreshToken |-> x.token.RefreshToken, IsAuthorized |-> isAuthorized(c, v.claims)],
                         v, redirectUrl)
        \* lines 457-493: the exchange x of the code
        Exchanged(rwx, x, redirectUrl) ==
            IF x.err = "panic" THEN done([rwx EXCEPT !.panic = TRUE], t)
            ELSE IF x.err # "" THEN done(HttpError(rwx, 500), t)
            ELSE IF c.TokenValidation \notin {"AccessToken", "IdToken", "Introspection"}
                 THEN done([rwx EXCEPT !.panic = TRUE], t)
            ELSE IF c.TokenValidation = "Introspection"
                 THEN Validated(rwx, x, introspectToken(t, c, x.token.AccessToken, mode, time), redirectUrl)
            ELSE IF c.TokenValidation = "IdToken"
                 THEN Validated(rwx, x, validateTokenLocally(t, c, x.token.IdToken, mode, time), redirectUrl)
            ELSE Validated(rwx, x, validateTokenLocally(t, c, x.token.AccessToken, mode, time), redirectUrl)
        Exchange(x, redirectUrl) ==
            Exchanged([rw EXCEPT !.calls = @ \o x.calls, !.sent = x.verifier, !.exchanged = (x.err = "")],
                      x, redirectUrl)
        \* lines 451-459 and 537-546: the decoded state d
        Decoded(d) ==
            IF d.err # "" THEN done(HttpError(rw, 500), t)
            ELSE IF d.state.Action = "Login" THEN
                IF ~req.code.present THEN done(HttpError(rw, 500), t)
                ELSE Exchange(exchangeAuthCode(c, req, req.code, mode, time), d.state.RedirectUrl)
            ELSE IF d.state.Action = "Logout"
                 THEN done(HttpRedirect(CallbackLogout(rw), [base |-> d.state.RedirectUrl, q |-> NoQuery]), t)
            ELSE done(HttpRedirect(rw, [base |-> d.state.RedirectUrl, q |-> NoQuery]), t)
    IN  Decoded(CallbackState(req))

\* the Id of a session that stands for an external header or cookie
ExternalIds == {"AuthorizationHeader", "AuthorizationCookie"}

\* lines 243-261 left out: the session keeps the IsAuthorized it came with
ReauthorizeSkipped(c, session, claims) == session

\* ServeHTTP, lines 243-261: the authorization of an external session,
\* evaluated anew against the claims of this request
Reauthorize(c, session, claims) ==
    IF session.Id \in ExternalIds
    THEN [session EXCEPT !.IsAuthorized = isAuthorized(c, claims)]
    ELSE session

\* template.New("").Parse(header.Value) fails
ParseFails(value) == value = "{{"

\* header.template.Execute(&renderedValue, evalContext): the rendered value,
\* or the error's message
Execute(value, session, claims) ==
    IF value = "{{.claims.sub}}"
    THEN IF "sub" \in DOMAIN claims /\ claims["sub"] # {}
         THEN CHOOSE x \in claims["sub"] : TRUE ELSE "<no value>"
    ELSE IF value = "{{.claims.sub.name}}" THEN "template: can't evaluate field name"
    ELSE value

\* the loop of attachHeaders over the configured headers: [hdr, err]
RECURSIVE attachEach(_, _, _, _)
attachEach(headers, hdr, session, claims) ==
    IF headers = <<>> THEN [hdr |-> hdr, err |-> ""]
    ELSE IF Head(headers).Value = ""
    THEN attachEach(Tail(headers), [hdr EXCEPT ![Head(headers).Name] = <<"">>], session, claims)
    ELSE IF ParseFails(Head(headers).Value) THEN [hdr |-> hdr, err |-> "template"]
    ELSE attachEach(Tail(headers),
                    [hdr EXCEPT ![Head(headers).Name] = <<Execute(Head(headers).Value, session, claims)>>],
                    session, claims)

\* attachHeaders: [hdr, err], the listed headers of the request after
\* req.Header.Set of each rendered value
attachHeaders(c, req, session, claims) == attachEach(c.Headers, req.custom, session, claims)

\* ServeHTTP from the session resolution on (lines 219-338): [rw, t]
ServeSession(rw, t, c, req, mode, time, rnd) ==
    LET \* lines 275-338: the headers attached
        Attached(rws, session, g, a) ==
            IF a.err # ""
            THEN [rw |-> [HttpError(Record(c, rws, <<"Error">>), 500) EXCEPT !.flow = "headers"], t |-> g.t]
            ELSE [rw |-> [Record(c, IF g.update
                                    THEN storeSessionAndAttachCookie(Record(c, rws, <<"SessionRefresh">>),
                                                                     c, session, rnd.nonce)
                                    ELSE rws, <<"AuthenticatedRequest">>)
                             EXCEPT !.forwarded = TRUE, !.flow = "authenticated",
                                    !.upstream = sanitizeForUpstream(c, CookieHeader(c, req)),
                                    !.headers = a.hdr],
                  t |-> g.t]
        \* lines 262-338: the session, its authorization settled
        Resolved(rws, session, g) ==
            IF ~session.IsAuthorized
            THEN [rw |-> handleUnauthorized(Record(c, rws, <<"UnauthorizedRequest">>)), t |-> g.t]
            ELSE Attached(rws, session, g, attachHeaders(c, req, session, g.claims))
        Authorize(rwg, session, g) == Resolved([rwg EXCEPT !.session = session], session, g)
        \* lines 219-261: what getSessionForRequest answered
        Got(rwg, g) ==
            IF g.err = "panic" THEN [rw |-> [rwg EXCEPT !.panic = TRUE, !.flow = "session"], t |-> g.t]
            ELSE IF g.err = "" /\ g.session # NoSession THEN
                IF HasPrefix(RequestURI(req), c.LogoutUri)
                THEN [rw |-> handleLogout([rwg EXCEPT !.session = g.session], g.t, c, req, g.session), t |-> g.t]
                ELSE Authorize([rwg EXCEPT !.carried = g.session.Id \in ExternalIds /\ g.session.IsAuthorized],
                               Reauthorize(c, g.session, g.claims), g)
            ELSE [rw |-> handleUnauthenticated(Record(c, clearChunkedCookie(rwg), <<"UnauthenticatedRequest">>),
                                               g.t, c, req, rnd), t |-> g.t]
        Get(g) == Got([rw EXCEPT !.calls = @ \o g.calls, !.valid = g.valid, !.claims = g.claims], g)
    IN  Get(getSessionForRequest(t, c, req, mode, time, rnd.carried))

\* ServeHTTP from the discovery on (lines 183-338): [rw, t]
ServeProtected(t, c, req, mode, time, rnd) ==
    LET Discovered(e, rwe) ==
            IF e.err # ""
            THEN [rw |-> [HttpError(rwe, 500) EXCEPT !.flow = "discovery"], t |-> e.t]
            ELSE IF isCallbackRequest(c, req) THEN handleCallback(rwe, e.t, c, req, mode, time, rnd)
            ELSE IF IsLoginRequest(c, req)
            THEN [rw |-> redirectToProvider(rwe, e.t, c, req, rnd), t |-> e.t]
            ELSE ServeSession(rwe, e.t, c, req, mode, time, rnd)
        Discover(e) == Discovered(e, [NoResp EXCEPT !.calls = e.calls])
    IN  Discover(EnsureOidcDiscovery(t, c, mode))

\* a ServeHTTP that ensures the discovery document before it evaluates the
\* bypass rule
ServeHTTPDiscoveringFirst(t, c, req, mode, time, rnd) ==
    LET Bypass(e) ==
            IF e.err # ""
            THEN [rw |-> [HttpError([NoResp EXCEPT !.calls = e.calls], 500) EXCEPT !.flow = "discovery"], t |-> e.t]
            ELSE [rw |-> [NoResp EXCEPT !.forwarded = TRUE, !.flow = "bypass", !.calls = e.calls,
                                        !.upstream = sanitizeForUpstream(c, CookieHeader(c, req)),
                                        !.headers = req.custom], t |-> e.t]
    IN  IF c.BypassAuthenticationRule # NoRule /\ Match(c.BypassAuthenticationRule, req)
        THEN Bypass(EnsureOidcDiscovery(t, c, mode))
        ELSE ServeProtected(t, c, req, mode, time, rnd)

\* ServeHTTP: [rw, t], the response and the gateway's shared state after it
ServeHTTP(t, c, req, mode, time, rnd) ==
    IF c.BypassAuthenticationRule # NoRule /\ Match(c.BypassAuthenticationRule, req)
    THEN [rw |-> [Record(c, NoResp, <<"BypassedRequest">>)
                     EXCEPT !.forwarded = TRUE, !.flow = "bypass",
                            !.upstream = sanitizeForUpstream(c, CookieHeader(c, req)),
                            !.headers = req.custom], t |-> t]
    ELSE ServeProtected(t, c, req, mode, time, rnd)

----------------------------------------------------------------------------
(* The client and the requests it sends *)

\* no single call is made / the call has not returned
NoCall == [fn |-> ""]
NoRet == [fn |-> ""]

Verifiers == {"v1", "v2"}             \* what randomBytesInHex may yield
\* the goroutines that serve requests at the same time
Callers == {"r1", "r2", "r3"}

Nonce == 1                            \* the nonce rand.Read yields in this specification

\* a session cookie sealed under a key that is not the gateway's
ForgedCookie ==
    Encrypt([Id |-> "sid", AccessToken |-> ForgedToken, IdToken |-> ForgedToken,
             RefreshToken |-> NoToken, IsAuthorized |-> TRUE], "attacker-key", 0)

\* a session cookie that decodes to fewer bytes than the nonce
ShortCookie == [NoCookie EXCEPT !.fmt = "short"]

\* verifier cookies the gateway never set: one that decodes to fewer bytes
\* than the nonce, one sealed under a key that is not the gateway's
ShortVerifierCookie == [NoVerifierCookie EXCEPT !.fmt = "short"]
ForgedVerifierCookie == Encrypt("v1", "attacker-key", 0)

XhrHeaders == [NoHeaders EXCEPT !["X-Requested-With"] = <<"XMLHttpRequest">>]

\* cookies of the application sent beside the gateway's: two well-formed
\* ones around a stray chunk of the session cookie, and the same with a
\* cookie whose value holds a double quote
AppCookies ==
    <<[name |-> <<"theme">>, value |-> <<"dark">>],
      [name |-> <<"TraefikOidcAuth", ".Session", "_1">>, value |-> <<"sealed">>],
      [name |-> <<"lang">>, value |-> <<"en">>]>>
JsonCookies ==
    <<[name |-> <<"theme">>, value |-> <<"dark">>],
      [name |-> <<"prefs">>, value |-> <<"{", "\"", "a", "\"", "}">>],
      [name |-> <<"TraefikOidcAuth", ".Session", "_1">>, value |-> <<"sealed">>],
      [name |-> <<"lang">>, value |-> <<"en", " ", "US">>]>>

\* a protected path that begins with the characters of the logout URI
SettingsPath == LogoutPath \o <<"-settings">>

\* the listed headers as a client sets them itself
SpoofedHeaders == [h \in UpstreamHeaderNames |-> <<"admin">>]

\* requests to a path that is none of callback, login, logout
AppRequests(c, j, time) ==
    {[BaseReq EXCEPT !.session = s, !.hdr = h] : s \in {j.session, NoCookie, ForgedCookie}, h \in {NoHeaders, XhrHeaders}}
    \cup {[BaseReq EXCEPT !.session = ShortCookie],
          [BaseReq EXCEPT !.redirect_uri = EvilUrl],
          [BaseReq EXCEPT !.redirect_uri = RootPath],
          [BaseReq EXCEPT !.path = PublicPath]}
    \cup {[BaseReq EXCEPT !.path = pa, !.session = j.session, !.verifier = j.verifier, !.cookies = ck] :
            pa \in {AppPath, PublicPath}, ck \in {AppCookies, JsonCookies}}
    \cup {[BaseReq EXCEPT !.path = pa, !.session = j.session, !.custom = SpoofedHeaders] :
            pa \in {AppPath, PublicPath}}
    \cup {[BaseReq EXCEPT !.path = SettingsPath, !.session = j.session]}
    \cup (IF c.AuthorizationHeaderName = "" THEN {}
          ELSE {[BaseReq EXCEPT !.auth = a, !.session = j.session] :
                    a \in {IssuedToken("access", u, time, "k1") : u \in Users}
                          \cup {IssuedToken("access", "alice", 0, "k1"), ForgedToken}})

LoginRequests(j) ==
    {[BaseReq EXCEPT !.path = LoginPath, !.session = j.session, !.redirect_uri = r] :
        r \in {<<>>, RootPath, EvilUrl}}

\* the state parameters a callback may carry
LoginStateParams ==
    {EncodeState([Action |-> "Login", RedirectUrl |-> r]) : r \in {<<>>, AppPath}}

OtherStateParams ==
    {EncodeState([Action |-> "Logout", RedirectUrl |-> <<"https://", "app", "/">>]),
     EncodeState([Action |-> "Other", RedirectUrl |-> EvilUrl]),
     NoStateParam, JunkStateParam}

\* the codes a callback may carry: none, one the provider issued for a user
\* (bound to the challenge of verifier v1 when PKCE is on), one it never issued
Codes(c) ==
    {NoCode, [present |-> TRUE, user |-> "", challenge |-> ""]}
    \cup {[present |-> TRUE, user |-> u, challenge |-> IF c.UsePkceBool THEN S256("v1") ELSE ""] : u \in Users}

CallbackRequests(c, j) ==
    LET cb == [BaseReq EXCEPT !.path = CallbackPath, !.session = j.session, !.verifier = j.verifier]
        issued == [present |-> TRUE, user |-> "alice", challenge |-> IF c.UsePkceBool THEN S256("v1") ELSE ""]
    IN  {[cb EXCEPT !.state = st, !.code = cd] : st \in LoginStateParams, cd \in Codes(c)}
        \cup {[cb EXCEPT !.state = st, !.code = issued] : st \in OtherStateParams}
        \cup {[cb EXCEPT !.state = EncodeState([Action |-> "Login", RedirectUrl |-> AppPath]),
                          !.code = issued, !.verifier = vc] :
                vc \in {ShortVerifierCookie, ForgedVerifierCookie}}

LogoutRequests(j) ==
    {[BaseReq EXCEPT !.path = LogoutPath, !.session = j.session, !.redirect_uri = r] :
        r \in {<<>>, RootPath, EvilUrl}}
    \cup {[BaseReq EXCEPT !.path = LogoutPath, !.session = se, !.redirect_uri = r, !.post_logout_redirect_uri = EvilUrl] :
            se \in {j.session, NoCookie}, r \in {<<>>, RootPath}}
    \cup {[BaseReq EXCEPT !.path = LogoutPath]}

Requests(c, j, time) ==
    AppRequests(c, j, time) \cup LoginRequests(j) \cup CallbackRequests(c, j) \cup LogoutRequests(j)

\* the requests that are also sent while the provider misbehaves
CoreRequests(c, j, time) ==
    {req \in Requests(c, j, time) :
        /\ req.hdr = NoHeaders
        /\ req.redirect_uri = <<>> \/ (req.path = LoginPath /\ req.redirect_uri = EvilUrl)
        /\ req.post_logout_redirect_uri = <<>>
        /\ req.session \in {j.session, NoCookie}
        /\ req.verifier \in {j.verifier, NoVerifierCookie}
        /\ req.auth \in {NoToken, IssuedToken("access", "alice", time, "k1")}
        /\ req.cookies = <<>> \/ req.path = PublicPath
        /\ req.path = CallbackPath =>
               /\ req.state = EncodeState([Action |-> "Login", RedirectUrl |-> AppPath])
               /\ req.code.user = "alice"}

\* a request and the provider's behaviour while it is served
Inputs(c, j, time) ==
    {[req |-> req, mode |-> "up"] : req \in Requests(c, j, time)}
    \cup {[req |-> req, mode |-> m] :
            req \in CoreRequests(c, j, time),
            m \in {n \in ProviderModes \ {"up"} : n = "inactive" => c.TokenValidation = "Introspection"}}

\* the browser's handling of the Set-Cookie headers of a response
ApplyCookies(j, rw) ==
    IF rw.panic THEN j
    ELSE [session  |-> IF rw.setSession.op = "" THEN j.session ELSE rw.setSession.val,
          verifier |-> IF rw.setVerifier.op = "" THEN j.verifier ELSE rw.setVerifier.val]

----------------------------------------------------------------------------
(* The metrics collector *)

\* the counters of MetricsCollector that ServeHTTP and handleLogout touch
Counters ==
    {"RequestsTotal", "RequestsAuthenticated", "RequestsUnauthenticated", "RequestsUnauthorized",
     "RequestsBypassed", "LogoutRequests", "ActiveSessions", "SessionsDestroyed", "SessionRefreshes",
     "ErrorsTotal", "ErrorsInternal"}

\* the fields of a new collector that the mutex guards
NewCounters == [n |-> [k \in Counters |-> 0], RequestLatencyMs |-> <<>>]

\* NewMetricsCollector, with mu the goroutine that holds m.mu, "" when free
NewMetricsCollector == [mu |-> "", v |-> NewCounters]

\* the length RecordRequestLatency keeps the latencies at
LatencyWindow == 1000

\* the bodies of the Record methods, on the fields v read under the lock
RecordRequest(v) == [v EXCEPT !.n["RequestsTotal"] = @ + 1]
RecordAuthenticatedRequest(v) == [v EXCEPT !.n["RequestsAuthenticated"] = @ + 1]
RecordUnauthenticatedRequest(v) == [v EXCEPT !.n["RequestsUnauthenticated"] = @ + 1]
RecordUnauthorizedRequest(v) == [v EXCEPT !.n["RequestsUnauthorized"] = @ + 1]
RecordBypassedRequest(v) == [v EXCEPT !.n["RequestsBypassed"] = @ + 1]
RecordLogout(v) == [v EXCEPT !.n["LogoutRequests"] = @ + 1]
RecordSessionRefresh(v) == [v EXCEPT !.n["SessionRefreshes"] = @ + 1]
RecordSessionDestroyed(v) ==
    [v EXCEPT !.n["SessionsDestroyed"] = @ + 1,
              !.n["ActiveSessions"] = IF @ > 0 THEN @ - 1 ELSE @]
\* RecordError("internal")
RecordError(v) == [v EXCEPT !.n["ErrorsTotal"] = @ + 1, !.n["ErrorsInternal"] = @ + 1]
RecordRequestLatency(v, latencyMs) ==
    [v EXCEPT !.RequestLatencyMs =
        (IF Len(@) >= LatencyWindow THEN Tail(@) ELSE @) \o <<latencyMs>>]

\* the method of the collector the handler calls
RecordMethod(method, v) ==
    CASE method = "Request" -> RecordRequest(v)
      [] method = "AuthenticatedRequest" -> RecordAuthenticatedRequest(v)
      [] method = "UnauthenticatedRequest" -> RecordUnauthenticatedRequest(v)
      [] method = "UnauthorizedRequest" -> RecordUnauthorizedRequest(v)
      [] method = "BypassedRequest" -> RecordBypassedRequest(v)
      [] method = "Logout" -> RecordLogout(v)
      [] method = "SessionRefresh" -> RecordSessionRefresh(v)
      [] method = "SessionDestroyed" -> RecordSessionDestroyed(v)
      [] method = "Error" -> RecordError(v)
      [] method = "RequestLatency" -> RecordRequestLatency(v, 0)

\* no caller has a request with Record calls to make
NoRecording == [p \in Callers |-> [calls |-> <<>>, i |-> 1, read |-> NewCounters]]

----------------------------------------------------------------------------
(* Specification of the request state machine *)

Init ==
    /\ cfg \in Configs
    /\ toa = NewToa(cfg)
    /\ now = 0
    /\ jar = [session |-> NoCookie, verifier |-> NoVerifierCookie]
    /\ lastReq = BaseReq
    /\ lastResp = NoResp
    /\ lastMode = "up"
    /\ pc = [p \in Callers |-> "start"]
    /\ lock = ""
    /\ fetches = <<>>
    /\ inflight = {}
    /\ call = NoCall
    /\ ret = NoRet
    /\ rec = NoRecording
    /\ metrics = NewMetricsCollector
    /\ cancelled = {}

\* one ServeHTTP call, and the client's handling of its response
Request ==
    \E in \in Inputs(cfg, jar, now), v \in Verifiers :
      \E ca \in (IF in.req.auth = NoToken THEN {FALSE} ELSE BOOLEAN) :
        LET Served(r) ==
                /\ (v # "v1" => r.rw.setVerifier.op = "set")
                /\ toa' = r.t
                /\ lastReq' = in.req
                /\ lastResp' = r.rw
                /\ lastMode' = in.mode
                /\ jar' = ApplyCookies(jar, r.rw)
                /\ UNCHANGED <<cfg, now, pc, lock, fetches, inflight, call, ret, cancelled, metrics, rec>>
        IN  Served(ServeHTTP(toa, cfg, in.req, in.mode, now, [verifier |-> v, nonce |-> Nonce, carried |-> ca]))

\* time passes
Tick ==
    /\ now < MaxTime
    /\ now' = now + 1
    /\ UNCHANGED <<cfg, toa, jar, lastReq, lastResp, lastMode, pc, lock, fetches, inflight, call, ret, cancelled, metrics, rec>>

Next == Request \/ Tick

Spec == Init /\ [][Next]_vars

----------------------------------------------------------------------------
(* Concurrent callers of EnsureOidcDiscoveryWithContext.  pc[p] is where
   caller p stands: "start" before line 54, "lock" at line 55, "recheck" at
   line 58, "fetch" inside GetOidcDiscoveryWithContext, "defaults" at line 89,
   "publish" at line 98, "jwksurl" at line 99, "done" and "failed" after the
   return.  fetches lists the fetches started, each with its caller and,
   once it has returned, the provider's behaviour and the callers that were
   waiting for the lock at that moment. *)

\* line 54: the read of toa.DiscoveryDocument outside the lock.  It is not
\* ordered with the write of line 98, so it may still yield nil after it.
Check54(p) ==
    /\ pc[p] = "start"
    /\ \E sawNil \in (IF toa.DiscoveryDocument.nil THEN {TRUE} ELSE {TRUE, FALSE}) :
           pc' = [pc EXCEPT ![p] = IF sawNil THEN "lock" ELSE "done"]
    /\ UNCHANGED <<cfg, toa, now, jar, lastReq, lastResp, lastMode, lock, fetches, inflight, call, ret, cancelled, metrics, rec>>

\* line 55 without mutual exclusion
Lock55Unguarded(p) ==
    /\ pc[p] = "lock"
    /\ lock' = p
    /\ pc' = [pc EXCEPT ![p] = "recheck"]
    /\ UNCHANGED <<cfg, toa, now, jar, lastReq, lastResp, lastMode, fetches, inflight, call, ret, cancelled, metrics, rec>>

\* line 55: toa.Lock.Lock()
Lock55(p) ==
    /\ pc[p] = "lock"
    /\ lock = ""
    /\ lock' = p
    /\ pc' = [pc EXCEPT ![p] = "recheck"]
    /\ UNCHANGED <<cfg, toa, now, jar, lastReq, lastResp, lastMode, fetches, inflight, call, ret, cancelled, metrics, rec>>

\* line 58, document present: return nil, the deferred Unlock runs
Recheck58Loaded(p) ==
    /\ pc[p] = "recheck"
    /\ ~toa.DiscoveryDocument.nil
    /\ lock' = ""
    /\ pc' = [pc EXCEPT ![p] = "done"]
    /\ UNCHANGED <<cfg, toa, now, jar, lastReq, lastResp, lastMode, fetches, inflight, call, ret, cancelled, metrics, rec>>

\* lines 58-71, document absent: a fresh Jwks handler, and the GET is sent
Recheck58Fetch(p) ==
    /\ pc[p] = "recheck"
    /\ toa.DiscoveryDocument.nil
    /\ Len(fetches) < MaxFetches
    /\ toa' = ResetJwks(toa)
    /\ fetches' = Append(fetches, [by |-> p, mode |-> "", waiting |-> {}])
    /\ inflight' = inflight \cup {p}
    /\ pc' = [pc EXCEPT ![p] = "fetch"]
    /\ UNCHANGED <<cfg, now, jar, lastReq, lastResp, lastMode, lock, call, ret, cancelled, metrics, rec>>

\* lines 71-78: GetOidcDiscoveryWithContext returns; on an error the caller
\* returns it and the deferred Unlock runs.  The provider that differs from
\* "up" at the introspection endpoint alone is left to "up".
FetchReturn(p) ==
    /\ pc[p] = "fetch"
    /\ \E mode \in ProviderModes \ {"inactive"} :
          /\ fetches' = [fetches EXCEPT ![Len(fetches)].mode = mode,
                                     ![Len(fetches)].waiting = {q \in Callers : pc[q] = "lock"}]
          /\ IF GetOidcDiscoveryWithContext(mode).err # ""
             THEN lock' = "" /\ pc' = [pc EXCEPT ![p] = "failed"]
             ELSE lock' = lock /\ pc' = [pc EXCEPT ![p] = "defaults"]
    /\ inflight' = inflight \ {p}
    /\ UNCHANGED <<cfg, toa, now, jar, lastReq, lastResp, lastMode, call, ret, cancelled, metrics, rec>>

\* the document the last fetch returned
FetchedDocument == GetOidcDiscoveryWithContext(fetches[Len(fetches)].mode).doc

\* lines 89-94
Defaults89(p) ==
    /\ pc[p] = "defaults"
    /\ toa' = ApplyDefaults(toa, cfg, FetchedDocument)
    /\ pc' = [pc EXCEPT ![p] = "publish"]
    /\ UNCHANGED <<cfg, now, jar, lastReq, lastResp, lastMode, lock, fetches, inflight, call, ret, cancelled, metrics, rec>>

\* line 98
Publish98(p) ==
    /\ pc[p] = "publish"
    /\ toa' = PublishDocument(toa, FetchedDocument)
    /\ pc' = [pc EXCEPT ![p] = "jwksurl"]
    /\ UNCHANGED <<cfg, now, jar, lastReq, lastResp, lastMode, lock, fetches, inflight, call, ret, cancelled, metrics, rec>>

\* lines 99-101: the JWKS url, return nil, the deferred Unlock runs
Publish99(p) ==
    /\ pc[p] = "jwksurl"
    /\ toa' = PublishJwksUrl(toa)
    /\ lock' = ""
    /\ pc' = [pc EXCEPT ![p] = "done"]
    /\ UNCHANGED <<cfg, now, jar, lastReq, lastResp, lastMode, fetches, inflight, call, ret, cancelled, metrics, rec>>

\* the next request served by a caller that has returned
NextCall(p) ==
    /\ pc[p] \in {"done", "failed"}
    /\ pc' = [pc EXCEPT ![p] = "start"]
    /\ UNCHANGED <<cfg, toa, now, jar, lastReq, lastResp, lastMode, lock, fetches, inflight, call, ret, cancelled, metrics, rec>>

NextDiscovery ==
    \E p \in Callers :
        \/ Check54(p) \/ Lock55(p) \/ Recheck58Loaded(p) \/ Recheck58Fetch(p) \/ FetchReturn(p)
        \/ Defaults89(p) \/ Publish98(p) \/ Publish99(p) \/ NextCall(p)

\* the configuration of CreateConfig with ValidIssuer set explicitly and
\* ValidAudience left empty
CfgPinned == [CfgDefault EXCEPT !.ValidIssuer = "https://issuer"]

\* the cold start of a gateway with that configuration
InitDiscovery ==
    /\ cfg = CfgPinned
    /\ toa = NewToa(cfg)
    /\ now = 0
    /\ jar = [session |-> NoCookie, verifier |-> NoVerifierCookie]
    /\ lastReq = BaseReq
    /\ lastResp = NoResp
    /\ lastMode = "up"
    /\ pc = [p \in Callers |-> "start"]
    /\ lock = ""
    /\ fetches = <<>>
    /\ inflight = {}
    /\ call = NoCall
    /\ ret = NoRet
    /\ rec = NoRecording
    /\ metrics = NewMetricsCollector
    /\ cancelled = {}

SpecDiscovery == InitDiscovery /\ [][NextDiscovery]_vars

----------------------------------------------------------------------------
(* Cancellation of the inbound request (specification SpecCancel).  Every
   caller serves a Login callback: discovery when the document is not loaded,
   the token exchange, then the validation of the token, by introspection or
   locally with the JWKS.  pc[p] is "start" before line 183 of ServeHTTP,
   "callback" before exchangeAuthCode, "validate" before the validation,
   "parse" before ParseWithClaims, "done" after the return, and the kind of
   the outbound call while p waits for its answer: "discovery", "token",
   "introspect", "jwks" (EnsureLoaded) or "reload" (the forced EnsureLoaded).
   The provider may leave a call unanswered for ever. *)

\* The context the request of an outbound call is made with: the inbound
\* request's for http.NewRequestWithContext(ctx, ...) with ctx derived from
\* req.Context(); EnsureLoaded(logger, httpClient, force) is handed no
\* context, so its request has the background context.
CallContext(kind) == IF kind \in {"jwks", "reload"} THEN "background" ELSE "request"

\* ServeHTTP line 183: EnsureOidcDiscoveryWithContext(req.Context()) up to
\* the GET of line 71, or its return when the document is there
EnsureDiscovery(p) ==
    /\ pc[p] = "start"
    /\ IF toa.DiscoveryDocument.nil
       THEN /\ lock = ""
            /\ lock' = p
            /\ toa' = ResetJwks(toa)
            /\ inflight' = inflight \cup {p}
            /\ pc' = [pc EXCEPT ![p] = "discovery"]
       ELSE /\ pc' = [pc EXCEPT ![p] = "callback"]
            /\ UNCHANGED <<toa, lock, inflight, metrics, rec>>
    /\ UNCHANGED <<cfg, now, jar, lastReq, lastResp, lastMode, fetches, call, ret, cancelled, metrics, rec>>

\* the provider answers the discovery request: lines 72-101
AnswerDiscovery(p) ==
    /\ pc[p] = "discovery"
    /\ \E mode \in {"up", "down"} :
          /\ toa' = EnsureOidcDiscovery(toa, cfg, mode).t
          /\ pc' = [pc EXCEPT ![p] = IF EnsureOidcDiscovery(toa, cfg, mode).err # "" THEN "done" ELSE "callback"]
    /\ lock' = ""
    /\ inflight' = inflight \ {p}
    /\ UNCHANGED <<cfg, now, jar, lastReq, lastResp, lastMode, fetches, call, ret, cancelled, metrics, rec>>

\* exchangeAuthCode up to httpClient.Do(tokenReq)
SendToken(p) ==
    /\ pc[p] = "callback"
    /\ inflight' = inflight \cup {p}
    /\ pc' = [pc EXCEPT ![p] = "token"]
    /\ UNCHANGED <<cfg, toa, now, jar, lastReq, lastResp, lastMode, lock, fetches, call, ret, cancelled, metrics, rec>>

\* the provider answers the token request, with tokens or without
AnswerToken(p) ==
    /\ pc[p] = "token"
    /\ \E ok \in BOOLEAN : pc' = [pc EXCEPT ![p] = IF ok THEN "validate" ELSE "done"]
    /\ inflight' = inflight \ {p}
    /\ UNCHANGED <<cfg, toa, now, jar, lastReq, lastResp, lastMode, lock, fetches, call, ret, cancelled, metrics, rec>>

\* handleCallback lines 487-492: introspectTokenWithContext up to
\* httpClient.Do, or validateTokenLocallyWithContext up to the GET of
\* EnsureLoaded(false), which is not sent when the keys are loaded
SendValidation(p) ==
    /\ pc[p] = "validate"
    /\ IF cfg.TokenValidation = "Introspection"
       THEN pc' = [pc EXCEPT ![p] = "introspect"] /\ inflight' = inflight \cup {p}
       ELSE IF toa.Jwks.loaded
       THEN pc' = [pc EXCEPT ![p] = "parse"] /\ inflight' = inflight
       ELSE pc' = [pc EXCEPT ![p] = "jwks"] /\ inflight' = inflight \cup {p}
    /\ UNCHANGED <<cfg, toa, now, jar, lastReq, lastResp, lastMode, lock, fetches, call, ret, cancelled, metrics, rec>>

\* the provider answers the introspection request
AnswerIntrospect(p) ==
    /\ pc[p] = "introspect"
    /\ inflight' = inflight \ {p}
    /\ pc' = [pc EXCEPT ![p] = "done"]
    /\ UNCHANGED <<cfg, toa, now, jar, lastReq, lastResp, lastMode, lock, fetches, call, ret, cancelled, metrics, rec>>

\* the provider answers the JWKS request of EnsureLoaded(false)
AnswerJwks(p) ==
    /\ pc[p] = "jwks"
    /\ \E mode \in {"up", "down"} :
          /\ toa' = [toa EXCEPT !.Jwks = EnsureLoaded(toa.Jwks, TRUE, mode).j]
          /\ pc' = [pc EXCEPT ![p] = IF EnsureLoaded(toa.Jwks, TRUE, mode).err # "" THEN "done" ELSE "parse"]
    /\ inflight' = inflight \ {p}
    /\ UNCHANGED <<cfg, now, jar, lastReq, lastResp, lastMode, lock, fetches, call, ret, cancelled, metrics, rec>>

\* validateTokenLocallyWithContext lines 410-430: the token, signed with one
\* of the provider's keys, parses with the loaded keys or the reload is sent
Parse(p) ==
    /\ pc[p] = "parse"
    /\ \E key \in SigningKeys :
          IF key \in toa.Jwks.Keys
          THEN pc' = [pc EXCEPT ![p] = "done"] /\ inflight' = inflight
          ELSE pc' = [pc EXCEPT ![p] = "reload"] /\ inflight' = inflight \cup {p}
    /\ UNCHANGED <<cfg, toa, now, jar, lastReq, lastResp, lastMode, lock, fetches, call, ret, cancelled, metrics, rec>>

\* the provider answers the JWKS request of EnsureLoaded(true); the second
\* parse ends the validation either way
AnswerReload(p) ==
    /\ pc[p] = "reload"
    /\ \E mode \in {"up", "down"} : toa' = [toa EXCEPT !.Jwks = EnsureLoaded(toa.Jwks, TRUE, mode).j]
    /\ inflight' = inflight \ {p}
    /\ pc' = [pc EXCEPT ![p] = "done"]
    /\ UNCHANGED <<cfg, now, jar, lastReq, lastResp, lastMode, lock, fetches, call, ret, cancelled, metrics, rec>>

\* the client disconnects or the proxy times out: req.Context() is done
Cancel(p) ==
    /\ pc[p] # "done"
    /\ p \notin cancelled
    /\ cancelled' = cancelled \cup {p}
    /\ UNCHANGED <<cfg, toa, now, jar, lastReq, lastResp, lastMode, pc, lock, fetches, inflight, call, ret, metrics, rec>>

\* httpClient.Do returns the context's error for a request made with a
\* context that is done; the handler returns (the deferred Unlock of
\* discovery runs)
Abort(p) ==
    /\ p \in inflight
    /\ p \in cancelled
    /\ CallContext(pc[p]) = "request"
    /\ inflight' = inflight \ {p}
    /\ lock' = IF pc[p] = "discovery" THEN "" ELSE lock
    /\ pc' = [pc EXCEPT ![p] = "done"]
    /\ UNCHANGED <<cfg, toa, now, jar, lastReq, lastResp, lastMode, fetches, call, ret, cancelled, metrics, rec>>

\* the caller serves its next request, with a context of its own
NextRequest(p) ==
    /\ pc[p] = "done"
    /\ pc' = [pc EXCEPT ![p] = "start"]
    /\ cancelled' = cancelled \ {p}
    /\ UNCHANGED <<cfg, toa, now, jar, lastReq, lastResp, lastMode, lock, fetches, inflight, call, ret, metrics, rec>>

\* the steps the handler takes by itself
HandlerStep(p) == EnsureDiscovery(p) \/ SendToken(p) \/ SendValidation(p) \/ Parse(p) \/ Abort(p)

NextCancel ==
    \E p \in Callers :
        \/ EnsureDiscovery(p) \/ AnswerDiscovery(p) \/ SendToken(p) \/ AnswerToken(p)
        \/ SendValidation(p) \/ AnswerIntrospect(p) \/ AnswerJwks(p) \/ Parse(p) \/ AnswerReload(p)
        \/ Cancel(p) \/ Abort(p) \/ NextRequest(p)

InitCancel ==
    /\ cfg \in {CfgDefault, CfgBypass}
    /\ toa = NewToa(cfg)
    /\ now = 0
    /\ jar = [session |-> NoCookie, verifier |-> NoVerifierCookie]
    /\ lastReq = BaseReq
    /\ lastResp = NoResp
    /\ lastMode = "up"
    /\ pc = [p \in Callers |-> "start"]
    /\ lock = ""
    /\ fetches = <<>>
    /\ inflight = {}
    /\ call = NoCall
    /\ ret = NoRet
    /\ rec = NoRecording
    /\ metrics = NewMetricsCollector
    /\ cancelled = {}

\* the goroutines run and the HTTP client honours a context that is done;
\* nothing makes the provider answer or the client disconnect
SpecCancel == InitCancel /\ [][NextCancel]_vars /\ \A p \in Callers : WF_vars(HandlerStep(p))

----------------------------------------------------------------------------
(* Concurrent requests with metrics enabled (specification SpecMetrics).
   Each of two callers serves one request; rec[p].calls lists the Record methods its
   ServeHTTP calls, RecordRequest first and the deferred RecordRequestLatency
   last, and rec[p].i is the one it is at.  A Record method locks m.mu, reads
   the fields, writes them and unlocks; pc[p] is "call" before the Lock and
   "locked" between Lock and Unlock. *)

\* the configurations with metrics enabled: a bypass rule and configured
\* headers, one of them with a template that does not parse
MetricsConfigs ==
    {[CfgDefault EXCEPT !.MetricsEnabled = TRUE,
                        !.BypassAuthenticationRule = [kind |-> "PathPrefix", arg |-> PublicPath],
                        !.Headers = <<[Name |-> "X-User", Value |-> tpl]>>] : tpl \in {"{{.claims.sub}}", "{{"}}

\* the session of user u with tokens issued at t
SessionOf(u, t, authorized) ==
    [Id |-> "sid", AccessToken |-> IssuedToken("access", u, t, "k1"), IdToken |-> IssuedToken("id", u, t, "k1"),
     RefreshToken |-> RefreshTokenOf(u, t), IsAuthorized |-> authorized]

\* the requests the callers serve: without a session, bypassed, with a
\* session (valid, expired and renewable, not authorized), a logout, a
\* callback without state
MetricsRequests(c, time) ==
    {BaseReq, [BaseReq EXCEPT !.path = PublicPath], [BaseReq EXCEPT !.path = CallbackPath]}
    \cup {[BaseReq EXCEPT !.session = Encrypt(SessionOf("alice", t, a), c.Secret, Nonce)] :
            t \in {time - 1, time}, a \in BOOLEAN}
    \cup {[BaseReq EXCEPT !.path = LogoutPath, !.session = Encrypt(SessionOf("alice", time, TRUE), c.Secret, Nonce)]}

\* the goroutines that serve a request
MetricsCallers == {"r1", "r2"}

\* sync.RWMutex: Lock and RLock go through when no writer holds the mutex
MuFreeAlways(m) == TRUE
MuFree(m) == m.mu = ""

\* ServeHTTP up to its return, the Record calls it makes still to be run
ServeWithMetrics(p) ==
    /\ pc[p] = "start"
    /\ \E req \in MetricsRequests(cfg, now) :
         LET Served(r) ==
                /\ toa' = r.t
                /\ rec' = [rec EXCEPT ![p] = [calls |-> <<"Request">> \o r.rw.recorded \o <<"RequestLatency">>,
                                              i |-> 1, read |-> NewCounters]]
         IN  Served(ServeHTTP(toa, cfg, req, "up", now, [verifier |-> "v1", nonce |-> Nonce, carried |-> FALSE]))
    /\ pc' = [pc EXCEPT ![p] = "call"]
    /\ UNCHANGED <<cfg, now, jar, lastReq, lastResp, lastMode, lock, fetches, inflight, call, ret, cancelled, metrics>>

\* m.mu.Lock() and the read of the fields
RecordLock(p) ==
    /\ pc[p] = "call"
    /\ MuFree(metrics)
    /\ metrics' = [metrics EXCEPT !.mu = p]
    /\ rec' = [rec EXCEPT ![p].read = metrics.v]
    /\ pc' = [pc EXCEPT ![p] = "locked"]
    /\ UNCHANGED <<cfg, toa, now, jar, lastReq, lastResp, lastMode, lock, fetches, inflight, call, ret, cancelled>>

\* the write of the fields and the deferred m.mu.Unlock()
RecordUnlock(p) ==
    /\ pc[p] = "locked"
    /\ metrics' = [mu |-> "", v |-> RecordMethod(rec[p].calls[rec[p].i], rec[p].read)]
    /\ rec' = [rec EXCEPT ![p].i = @ + 1]
    /\ pc' = [pc EXCEPT ![p] = IF rec[p].i = Len(rec[p].calls) THEN "done" ELSE "call"]
    /\ UNCHANGED <<cfg, toa, now, jar, lastReq, lastResp, lastMode, lock, fetches, inflight, call, ret, cancelled>>

\* GetSnapshot by the metrics endpoint: the counters copied under RLock
GetSnapshot ==
    /\ MuFree(metrics)
    /\ ret' = [fn |-> "GetSnapshot", val |-> metrics.v.n]
    /\ UNCHANGED <<cfg, toa, now, jar, lastReq, lastResp, lastMode, pc, lock, fetches, inflight, call, cancelled, metrics, rec>>

NextMetrics ==
    \/ \E p \in MetricsCallers : ServeWithMetrics(p) \/ RecordLock(p) \/ RecordUnlock(p)
    \/ GetSnapshot

InitMetrics ==
    /\ cfg \in MetricsConfigs
    /\ toa = NewToa(cfg)
    /\ now = 1
    /\ jar = [session |-> NoCookie, verifier |-> NoVerifierCookie]
    /\ lastReq = BaseReq
    /\ lastResp = NoResp
    /\ lastMode = "up"
    /\ pc = [p \in Callers |-> "start"]
    /\ lock = ""
    /\ fetches = <<>>
    /\ inflight = {}
    /\ call = NoCall
    /\ ret = NoRet
    /\ rec = NoRecording
    /\ metrics = NewMetricsCollector
    /\ cancelled = {}

SpecMetrics == InitMetrics /\ [][NextMetrics]_vars

----------------------------------------------------------------------------
(* Single calls of the gateway's functions.  call holds the function and the
   arguments of one call, drawn from the sets below; the call's action sets
   ret to what it returns. *)

\* the states of toa.Jwks a validation may find: unloaded, loaded with the
\* provider's keys, loaded with keys the provider has since replaced, and
\* without a url
JwksStates ==
    {[NewJwks EXCEPT !.Url = ProviderDoc.JWKSURI],
     [Url |-> ProviderDoc.JWKSURI, Keys |-> ProviderKeys, loaded |-> TRUE],
     [Url |-> ProviderDoc.JWKSURI, Keys |-> {"k0"}, loaded |-> TRUE],
     NewJwks}

\* the gateway after discovery, its Jwks in one of these states
ToaStates(c) ==
    {[DiscoveryDocument |-> ProviderDoc, Jwks |-> j, ValidIssuer |-> ProviderIssuer, ValidAudience |-> c.ClientId] :
        j \in JwksStates}

\* the tokens a validation may be given: issued by the provider under a key
\* of its JWKS or another key of its own, signed by someone else, for another
\* audience, from another issuer, and not a JWT at all
GivenTokens ==
    {IssuedToken("access", "alice", 0, k) : k \in SigningKeys}
    \cup {[ForgedToken EXCEPT !.exp = 1],
          [IssuedToken("access", "alice", 0, "k1") EXCEPT !.aud = "other"],
          [IssuedToken("access", "alice", 0, "k1") EXCEPT !.iss = "https://other"],
          [NoToken EXCEPT !.fmt = "opaque"]}

ValidateCalls ==
    {[fn |-> "validateTokenLocally", t |-> t, c |-> CfgDefault, tok |-> tok, mode |-> mode, time |-> time] :
        t \in ToaStates(CfgDefault), tok \in GivenTokens, mode \in ProviderModes, time \in 0..MaxTime}

ValidateTokenLocallyCall ==
    /\ call.fn = "validateTokenLocally"
    /\ ret = NoRet
    /\ ret' = [fn |-> call.fn, val |-> validateTokenLocally(call.t, call.c, call.tok, call.mode, call.time)]
    /\ UNCHANGED <<cfg, toa, now, jar, lastReq, lastResp, lastMode, pc, lock, fetches, inflight, call, cancelled, metrics, rec>>

\* the answers the introspection endpoint may give to a token
IntrospectionResponses ==
    {[err |-> e, json |-> js, active |-> a, claims |-> cl] :
        e \in {"", "introspection request failed"}, js \in BOOLEAN, a \in ActiveValues,
        cl \in {NoClaims} \cup {ClaimsOf(tok) : tok \in {g \in GivenTokens : g.fmt = "jwt"}}}

IntrospectCalls ==
    {[fn |-> "introspectToken", t |-> t, resp |-> r] : t \in ToaStates(CfgDefault), r \in IntrospectionResponses}

IntrospectTokenCall ==
    /\ call.fn = "introspectToken"
    /\ ret = NoRet
    /\ ret' = [fn |-> call.fn, val |-> DecodeIntrospection(call.t, call.resp)]
    /\ UNCHANGED <<cfg, toa, now, jar, lastReq, lastResp, lastMode, pc, lock, fetches, inflight, call, cancelled, metrics, rec>>

\* redirect URIs and templates, symbol by symbol: a letter of the word
\* class, a slash and a dot outside it, and the wildcard
MaxUriLen == 3
UriSymbols == {"a", "/", ".", "*"}
RECURSIVE UrisOfLen(_)
UrisOfLen(n) == IF n = 0 THEN {<<>>} ELSE {<<x>> \o u : x \in UriSymbols, u \in UrisOfLen(n - 1)}
Uris == UNION {UrisOfLen(n) : n \in 0..MaxUriLen}

\* the allow-lists: nil, one template, two short templates
ValidUris ==
    {<<>>} \cup {<<t>> : t \in Uris}
    \cup {<<t, u>> : t \in {<<"/">>, <<"*">>, <<"a">>}, u \in {<<"/">>, <<"*">>, <<"a">>}}

ValidateRedirectUriCalls ==
    {[fn |-> "ValidateRedirectUri", redirectUri |-> r, validUris |-> l] : r \in Uris, l \in ValidUris}

ValidateRedirectUriCall ==
    /\ call.fn = "ValidateRedirectUri"
    /\ ret = NoRet
    /\ ret' = [fn |-> call.fn, val |-> ValidateRedirectUri(call.redirectUri, call.validUris)]
    /\ UNCHANGED <<cfg, toa, now, jar, lastReq, lastResp, lastMode, pc, lock, fetches, inflight, call, cancelled, metrics, rec>>

\* the detection headers handleUnauthenticated may pass to the classifier:
\* nil, those of CreateConfig, and those with the Accept header added
JsHeaderConfigs ==
    {<<>>, DefaultJsHeaders,
     [h \in {"X-Requested-With", "Accept"} |->
        IF h = "Accept" THEN <<(<<"application/json">>)>> ELSE <<(<<"XMLHttpRequest">>)>>]}

\* the headers of a request
RequestHeaders ==
    {[h \in HeaderNames |->
        CASE h = "X-Requested-With" -> x
          [] h = "Sec-Fetch-Mode" -> m
          [] h = "Content-Type" -> ct
          [] h = "Accept" -> a] :
        x \in {<<>>, <<"XMLHttpRequest">>},
        m \in {<<>>, <<"CORS">>, <<"navigate">>},
        ct \in {<<>>, <<"application/json">>},
        a \in {<<>>, <<"application/json">>, <<"application/json", ", ", "text/html">>, <<"text/html">>}}

IsXHRCalls ==
    {[fn |-> "IsXHRRequestWithHeaders", req |-> [BaseReq EXCEPT !.hdr = h], headers |-> js] :
        h \in RequestHeaders, js \in JsHeaderConfigs}

\* the orders in which range may yield the keys of a map
Orders(keys) ==
    {o \in [1..Cardinality(keys) -> keys] : \A i, j \in DOMAIN o : i # j => o[i] # o[j]}

\* the loop of IsXHRRequestWithHeaders that returns false where it should
\* go on to the next header
CheckConfiguredHeadersReturning(req, headers, order) ==
    LET RECURSIVE Loop(_)
        Loop(k) ==
            IF k > Len(order) THEN FALSE
            ELSE IF req.hdr[order[k]] = <<>> THEN Loop(k + 1)
            ELSE IF order[k] = "Accept" /\ Contains(req.hdr[order[k]], <<"text/html">>) THEN FALSE
            ELSE IF \E i \in DOMAIN headers[order[k]] :
                        Contains(ToLower(req.hdr[order[k]]), ToLower(headers[order[k]][i]))
                 THEN TRUE
            ELSE Loop(k + 1)
    IN  Loop(1)

\* utils.IsXHRRequestWithHeaders, lines 306-326: the loop over the
\* configured headers in the order range yields them
CheckConfiguredHeaders(req, headers, order) ==
    LET RECURSIVE Loop(_)
        Loop(k) ==
            IF k > Len(order) THEN FALSE
            ELSE IF req.hdr[order[k]] = <<>> THEN Loop(k + 1)
            ELSE IF order[k] = "Accept" /\ Contains(req.hdr[order[k]], <<"text/html">>) THEN Loop(k + 1)
            ELSE IF \E i \in DOMAIN headers[order[k]] :
                        Contains(ToLower(req.hdr[order[k]]), ToLower(headers[order[k]][i]))
                 THEN TRUE
            ELSE Loop(k + 1)
    IN  Loop(1)

IsXHRRequestCall ==
    /\ call.fn = "IsXHRRequestWithHeaders"
    /\ ret = NoRet
    /\ \E order \in Orders(DOMAIN call.headers) :
          ret' = [fn |-> call.fn,
                  val |-> IF DOMAIN call.headers = {} THEN IsXHRRequestWithHeaders(call.req, call.headers)
                          ELSE CheckConfiguredHeaders(call.req, call.headers, order),
                  order |-> order]
    /\ UNCHANGED <<cfg, toa, now, jar, lastReq, lastResp, lastMode, pc, lock, fetches, inflight, call, cancelled, metrics, rec>>

\* isAuthorized on its own: the values listed by assertions and carried by claims
ClaimValues == {"admin", "alice@example.com"}

\* the claim paths of the assertions; a dotted path addresses a nested object
ClaimPaths == {"email", "realm_access.roles"}

\* the ClaimAssertions of a configuration
ClaimAssertions ==
    {[Name |-> n, AnyOf |-> any, AllOf |-> all] :
        n \in ClaimPaths, any \in SUBSET ClaimValues, all \in SUBSET ClaimValues}

\* the claims of a token by path: a string is the set of its one value, an
\* array the set of its elements, a path that is missing is outside the domain
ClaimMaps ==
    UNION {[present -> SUBSET (ClaimValues \cup {"bob@example.com"})] : present \in SUBSET ClaimPaths}

IsAuthorizedCalls ==
    {[fn |-> "isAuthorized", c |-> [AssertClaims |-> as], claims |-> cl] :
        as \in {<<>>} \cup {<<a>> : a \in ClaimAssertions}
                \cup {<<a, b>> : a \in {x \in ClaimAssertions : x.Name = "email"},
                                 b \in {x \in ClaimAssertions : x.Name = "realm_access.roles"}},
        cl \in ClaimMaps}

IsAuthorizedCall ==
    /\ call.fn = "isAuthorized"
    /\ ret = NoRet
    /\ ret' = [fn |-> call.fn, val |-> isAuthorized(call.c, call.claims)]
    /\ UNCHANGED <<cfg, toa, now, jar, lastReq, lastResp, lastMode, pc, lock, fetches, inflight, call, cancelled, metrics, rec>>

\* Encrypt and Decrypt on their own: plaintexts, 32-byte secrets and the
\* nonces rand.Read may draw
Plaintexts == {"", "hello", "v1"}
Secrets == {"MLFs4TT99kOOq8h3UAVRtYoCTDYXiRcZ", "0123456789abcdef0123456789abcdef"}
Nonces == {1, 2}

EncryptCalls == {[fn |-> "Encrypt", plaintext |-> s, secret |-> k] : s \in Plaintexts, k \in Secrets}

EncryptCall ==
    /\ call.fn = "Encrypt"
    /\ ret = NoRet
    /\ \E nonce \in Nonces : ret' = [fn |-> call.fn, val |-> Encrypt(call.plaintext, call.secret, nonce)]
    /\ UNCHANGED <<cfg, toa, now, jar, lastReq, lastResp, lastMode, pc, lock, fetches, inflight, call, cancelled, metrics, rec>>

\* Decrypt of what Encrypt returned, under the same secret
DecryptCall ==
    /\ call.fn = "Encrypt"
    /\ ret.fn = "Encrypt"
    /\ ret' = [fn |-> "Decrypt", val |-> Decrypt(ret.val, call.secret, ""), ciphertext |-> ret.val]
    /\ UNCHANGED <<cfg, toa, now, jar, lastReq, lastResp, lastMode, pc, lock, fetches, inflight, call, cancelled, metrics, rec>>

\* the strings a client may send as a cookie value: the empty string, one
\* that is not base64, one that decodes to fewer bytes than the nonce, and
\* what Encrypt returns for some plaintext under some secret
Ciphertexts ==
    {[NoVerifierCookie EXCEPT !.fmt = f] : f \in {"", "notb64", "short"}}
    \cup {Encrypt(s, k, n) : s \in Plaintexts, k \in Secrets, n \in Nonces}

DecryptCalls == {[fn |-> "Decrypt", ciphertext |-> c, secret |-> k] : c \in Ciphertexts, k \in Secrets}

\* Decrypt of a string the caller received
DecryptStringCall ==
    /\ call.fn = "Decrypt"
    /\ ret = NoRet
    /\ ret' = [fn |-> call.fn, val |-> Decrypt(call.ciphertext, call.secret, "")]
    /\ UNCHANGED <<cfg, toa, now, jar, lastReq, lastResp, lastMode, pc, lock, fetches, inflight, call, cancelled, metrics, rec>>

\* ChunkString on its own
MaxInputLen == 4
MaxChunkSize == 5
ChunkSymbols == {"a", "b"}
ChunkInputs == UNION {[1..n -> ChunkSymbols] : n \in 0..MaxInputLen}

\* the loop of ChunkString from offset i (counted from 0) with the chunks so far
RECURSIVE ChunkLoop(_, _, _, _)
ChunkLoop(input, chunkSize, i, chunks) ==
    IF i < Len(input)
    THEN LET end == IF i + chunkSize > Len(input) THEN Len(input) ELSE i + chunkSize
         IN  ChunkLoop(input, chunkSize, i + chunkSize, Append(chunks, SubSeq(input, i + 1, end)))
    ELSE chunks

\* ChunkString appending only the chunks of full size
ChunkStringWholeChunks(input, chunkSize) ==
    LET all == ChunkLoop(input, chunkSize, 0, <<>>)
    IN  SelectSeq(all, LAMBDA ch : Len(ch) = chunkSize)

\* utils.ChunkString; the nil slice is the empty sequence
ChunkString(input, chunkSize) == ChunkLoop(input, chunkSize, 0, <<>>)

ChunkStringCalls ==
    {[fn |-> "ChunkString", input |-> s, chunkSize |-> n] : s \in ChunkInputs, n \in 1..MaxChunkSize}

ChunkStringCall ==
    /\ call.fn = "ChunkString"
    /\ ret = NoRet
    /\ ret' = [fn |-> call.fn, val |-> ChunkString(call.input, call.chunkSize)]
    /\ UNCHANGED <<cfg, toa, now, jar, lastReq, lastResp, lastMode, pc, lock, fetches, inflight, call, cancelled, metrics, rec>>

\* New on its own: the fields of the configuration its checks read
DefaultSecret == "MLFs4TT99kOOq8h3UAVRtYoCTDYXiRcZ"

\* CreateConfig(): the provider has no url, client id, client secret or bundle
CreateConfig ==
    [Secret |-> DefaultSecret,
     Provider |-> [nil |-> FALSE, Url |-> "", ClientId |-> "", ClientSecret |-> "",
                   CABundle |-> "", CABundleFile |-> ""]]

\* utils.ParseUrl of the provider url, as far as the urls of NewConfigs go
ParseUrl(rawUrl) == IF rawUrl = "" THEN "invalid empty url" ELSE ""

\* New: [handler, err]; readable says whether os.ReadFile can read CABundleFile
New(config, readable) ==
    LET p == config.Provider
        fail(err) == [handler |-> FALSE, err |-> err]
    IN  IF p.nil THEN fail("missing provider configuration")
        ELSE IF p.Url = "https://..." THEN [handler |-> TRUE, err |-> ""]
        ELSE IF p.ClientId = "" THEN fail("provider client_id is required")
        ELSE IF p.ClientSecret = "" THEN fail("provider client_secret is required")
        ELSE IF Len(config.Secret) # 32 THEN fail("invalid secret")
        ELSE IF p.CABundle # "" /\ p.CABundleFile # ""
             THEN fail("you can only use an inline CABundle OR CABundleFile, not both.")
        ELSE IF ParseUrl(p.Url) # "" THEN fail(ParseUrl(p.Url))
        ELSE IF p.CABundle = "" /\ p.CABundleFile # "" /\ ~readable THEN fail("open: no such file or directory")
        ELSE [handler |-> TRUE, err |-> ""]

NewConfigs ==
    {[Secret |-> s,
      Provider |-> [nil |-> n, Url |-> u, ClientId |-> id, ClientSecret |-> cs,
                    CABundle |-> b, CABundleFile |-> f]] :
        s \in {DefaultSecret, "too-short", "MLFs4TT99kOOq8h3UAVRtYoCTDYXiRcZ0"},
        n \in BOOLEAN, u \in {"", "https://...", "http://example.com"},
        id \in {"", "traefik"}, cs \in {"", "secret"},
        b \in {"", "some-bundle"}, f \in {"", "some-file"}}

NewCalls == {[fn |-> "New", config |-> c, readable |-> r] : c \in NewConfigs, r \in BOOLEAN}

NewCall ==
    /\ call.fn = "New"
    /\ ret = NoRet
    /\ ret' = [fn |-> call.fn, val |-> New(call.config, call.readable)]
    /\ UNCHANGED <<cfg, toa, now, jar, lastReq, lastResp, lastMode, pc, lock, fetches, inflight, call, cancelled, metrics, rec>>

\* ServeHTTP on its own, under configurations whose callback URI is relative
\* or absolute, whose bypass rule covers the callback path, and whose login
\* URI is a prefix of it
CallbackConfigs ==
    {CfgDefault,
     [CfgDefault EXCEPT !.CallbackURL = [Scheme |-> "https", Host |-> "login.app", Path |-> CallbackPath]],
     [CfgDefault EXCEPT !.BypassAuthenticationRule = [kind |-> "PathPrefix", arg |-> <<"/", "oidc">>]],
     [CfgDefault EXCEPT !.LoginUri = <<"/", "oidc">>]}

CallbackPathRequests ==
    {[BaseReq EXCEPT !.path = p, !.state = st, !.host = h, !.xfHost = xh, !.xfProto = xp, !.tls = tls] :
        p \in {CallbackPath, CallbackPath \o <<"/">>, LoginPath, AppPath},
        st \in {NoStateParam, EncodeState([Action |-> "Login", RedirectUrl |-> AppPath])},
        h \in {"app", "login.app"}, xh \in {"", "login.app", "app"},
        xp \in {"", "http", "https"}, tls \in BOOLEAN}

\* New, lines 434-445: an empty TokenValidation becomes IdToken for a
\* provider url of EntraID and AccessToken otherwise; any other value is
\* kept as it is configured
NewTokenValidation(tokenValidation, url) ==
    IF tokenValidation = ""
    THEN IF url = "https://login.microsoftonline.com" THEN "IdToken" ELSE "AccessToken"
    ELSE tokenValidation

\* the values of verification_token a configuration may hold
TokenValidations == {"", "AccessToken", "IdToken", "Introspection", "UserInfo"}

\* the configurations New makes of them
TokenValidationConfigs ==
    {[CfgDefault EXCEPT !.TokenValidation = NewTokenValidation(tv, url)] :
        tv \in TokenValidations, url \in {"https://login.microsoftonline.com", "http://example.com"}}

\* a Login callback with a code the provider issued
LoginCallbackRequest ==
    [BaseReq EXCEPT !.path = CallbackPath,
                    !.state = EncodeState([Action |-> "Login", RedirectUrl |-> AppPath]),
                    !.code = [present |-> TRUE, user |-> "alice", challenge |-> ""]]

ServeHTTPCalls ==
    {[fn |-> "ServeHTTP", t |-> NewToa(c), c |-> c, req |-> req, mode |-> m] :
        c \in CallbackConfigs, req \in CallbackPathRequests, m \in {"up", "down"}}
    \cup {[fn |-> "ServeHTTP", t |-> NewToa(c), c |-> c, req |-> LoginCallbackRequest, mode |-> "up"] :
            c \in TokenValidationConfigs}

ServeHTTPCall ==
    /\ call.fn = "ServeHTTP"
    /\ ret = NoRet
    /\ ret' = [fn |-> call.fn,
               val |-> ServeHTTP(call.t, call.c, call.req, call.mode, 0,
                                 [verifier |-> "v1", nonce |-> Nonce, carried |-> FALSE]).rw]
    /\ UNCHANGED <<cfg, toa, now, jar, lastReq, lastResp, lastMode, pc, lock, fetches, inflight, call, cancelled, metrics, rec>>

Calls == ValidateCalls \cup IntrospectCalls \cup ValidateRedirectUriCalls \cup IsXHRCalls \cup IsAuthorizedCalls \cup EncryptCalls \cup ChunkStringCalls \cup NewCalls \cup ServeHTTPCalls \cup DecryptCalls

InitCalls ==
    /\ cfg = CfgDefault
    /\ toa = NewToa(cfg)
    /\ now = 0
    /\ jar = [session |-> NoCookie, verifier |-> NoVerifierCookie]
    /\ lastReq = BaseReq
    /\ lastResp = NoResp
    /\ lastMode = "up"
    /\ pc = [p \in Callers |-> "start"]
    /\ lock = ""
    /\ fetches = <<>>
    /\ inflight = {}
    /\ call \in Calls
    /\ ret = NoRet
    /\ rec = NoRecording
    /\ metrics = NewMetricsCollector
    /\ cancelled = {}

NextCalls ==
    \/ ValidateTokenLocallyCall
    \/ IntrospectTokenCall
    \/ ValidateRedirectUriCall
    \/ IsXHRRequestCall
    \/ IsAuthorizedCall
    \/ EncryptCall
    \/ DecryptCall
    \/ ChunkStringCall
    \/ NewCall
    \/ ServeHTTPCall
    \/ DecryptStringCall

SpecCalls == InitCalls /\ [][NextCalls]_vars

----------------------------------------------------------------------------
(* Properties of the request state machine (specification Spec).  They
   speak of the last completed ServeHTTP call: lastReq, the provider's
   behaviour lastMode, the answer lastResp. *)

\* a ServeHTTP call has completed
Served == lastResp # NoResp

\* the bypass rule matches the request
Bypassed(req) == cfg.BypassAuthenticationRule # NoRule /\ Match(cfg.BypassAuthenticationRule, req)

\* the request is none of bypassed, callback, login, logout
ProtectedPath(req) ==
    /\ ~Bypassed(req)
    /\ ~isCallbackRequest(cfg, req)
    /\ ~IsLoginRequest(cfg, req)
    /\ ~HasPrefix(RequestURI(req), cfg.LogoutUri)

\* the request reached the callback sub-flow with a state that decodes to the action
CallbackWith(action) ==
    /\ lastResp.flow = "callback"
    /\ DecodeState(lastReq.state).err = ""
    /\ DecodeState(lastReq.state).state.Action = action

C2_FreshRequestRedirectedToProvider ==
    ( /\ Served
      /\ lastResp.flow # "discovery"
      /\ ProtectedPath(lastReq)
      /\ lastReq.session = NoCookie
      /\ lastReq.auth = NoToken
      /\ cfg.UnauthorizedBehavior = "Challenge"
      /\ ~IsXHRRequestWithHeaders(lastReq, cfg.JsHeaders) )
    => /\ lastResp.status = 302
       /\ lastResp.loc.base = toa.DiscoveryDocument.AuthorizationEndpoint
       /\ lastResp.loc.q.response_type = "code"
       /\ lastResp.loc.q.scope = JoinScopes(cfg.Scopes)
       /\ lastResp.loc.q.client_id = cfg.ClientId
       /\ lastResp.loc.q.redirect_uri = GetAbsoluteCallbackURL(cfg, lastReq)
       /\ DecodeState(lastResp.loc.q.state).err = ""
       /\ DecodeState(lastResp.loc.q.state).state.Action = "Login"

\* C3: a Login callback with a code, whose exchange succeeds, whose token
\* validates and whose claims satisfy the assertions, sets a session cookie
\* with the exchanged tokens and IsAuthorized=true and answers 302 to the
\* state's RedirectUrl made absolute, or to PostLoginRedirectUri when the
\* state holds none.
C3_LoginCallbackStoresSessionAndRedirects ==
    ( /\ CallbackWith("Login")
      /\ lastReq.code.present
      /\ lastResp.exchanged
      /\ lastResp.valid = "ok"
      /\ isAuthorized(cfg, lastResp.claims) )
    => /\ lastResp.setSession.op = "set"
       /\ Decrypt(lastResp.setSession.val, cfg.Secret, NoSession).err = ""
       /\ \E t \in 0..now :
             Decrypt(lastResp.setSession.val, cfg.Secret, NoSession).pt =
                [Id |-> "sid",
                 AccessToken |-> IssuedToken("access", lastReq.code.user, t, SigningKey(lastMode)),
                 IdToken |-> IssuedToken("id", lastReq.code.user, t, SigningKey(lastMode)),
                 RefreshToken |-> RefreshTokenOf(lastReq.code.user, t),
                 IsAuthorized |-> TRUE]
       /\ lastResp.status = 302
       /\ lastResp.loc.q = NoQuery
       /\ lastResp.loc.base =
             IF DecodeState(lastReq.state).state.RedirectUrl # <<>>
             THEN <<"https://", "app">> \o DecodeState(lastReq.state).state.RedirectUrl
             ELSE <<"https://", "app">> \o cfg.PostLoginRedirectUri

\* a Login callback that met all of it, under assertions on the roles
C3_Witness ==
    /\ CallbackWith("Login")
    /\ lastResp.exchanged
    /\ lastResp.valid = "ok"
    /\ cfg.AssertClaims # <<>>
    /\ isAuthorized(cfg, lastResp.claims)
    /\ lastResp.status = 302

\* the provider answered the call's requests, or failed them
Healthy == {"up", "rogue", "inactive"}
Failing == {"down", "status", "badbody"}

\* the session the request's cookie holds under the gateway's secret
CookieSession(req) == Decrypt(req.session, cfg.Secret, NoSession)

\* a Login callback whose exchange and validation succeeded and whose claims
\* fail the assertions
UnauthorizedLoginCallback ==
    /\ CallbackWith("Login")
    /\ lastReq.code.present
    /\ lastResp.exchanged
    /\ lastResp.valid = "ok"
    /\ ~isAuthorized(cfg, lastResp.claims)

\* the request presents a cookie that such a callback set
PresentsUnauthorizedCookie ==
    /\ Served
    /\ CookieSession(lastReq).err = ""
    /\ ~CookieSession(lastReq).pt.IsAuthorized

LogoutRedirectQuery(req) ==
    IF req.redirect_uri # <<>> THEN req.redirect_uri ELSE req.post_logout_redirect_uri

\* a request to the logout path with a valid session
LogoutWithSession ==
    /\ Served
    /\ ~Bypassed(lastReq) /\ ~isCallbackRequest(cfg, lastReq) /\ ~IsLoginRequest(cfg, lastReq)
    /\ HasPrefix(RequestURI(lastReq), cfg.LogoutUri)
    /\ lastResp.valid = "ok"
    /\ lastResp.session # NoSession

\* the 302 to the end-session endpoint
LogoutRedirect ==
    /\ lastResp.status = 302
    /\ lastResp.loc.base = toa.DiscoveryDocument.EndSessionEndpoint
    /\ lastResp.loc.q.client_id = cfg.ClientId
    /\ lastResp.loc.q.id_token_hint = lastResp.session.IdToken
    /\ lastResp.loc.q.id_token_hint # NoToken
    /\ lastResp.loc.q.state.enc = "b64json"
    /\ lastResp.loc.q.state.Action = "Logout"

C6_LogoutCallbackEndsSession ==
    /\ [](CallbackWith("Logout") =>
            /\ lastResp.setSession.op = "clear"
            /\ lastResp.status = 302
            /\ lastResp.loc = [base |-> lastReq.state.RedirectUrl, q |-> NoQuery]
            /\ jar.session = NoCookie)
    /\ []((Served /\ ProtectedPath(lastReq) /\ lastReq.session = NoCookie /\ lastReq.auth = NoToken
             /\ lastResp.flow # "discovery") =>
            /\ ~lastResp.forwarded
            /\ lastResp.flow \in {"unauthenticated", "redirectToProvider"}
            /\ lastResp.status \in {401, 302, 400})
    /\ [][(jar.session = NoCookie /\ jar'.session # NoCookie) =>
            (lastResp'.flow = "callback" /\ lastReq'.state.Action = "Login" /\ lastResp'.exchanged)]_vars

\* a Logout callback of a client that held a session cookie
C6_Witness ==
    /\ CallbackWith("Logout")
    /\ lastReq.session # NoCookie
    /\ jar.session = NoCookie

\* C7: a callback whose state is missing or does not decode is answered 500;
\* no token exchange is sent and no session cookie is set or cleared.
C7_BadStateIs500 ==
    ( /\ Served
      /\ ~Bypassed(lastReq)
      /\ isCallbackRequest(cfg, lastReq)
      /\ lastResp.flow # "discovery"
      /\ lastReq.state.enc # "b64json" )
    => /\ lastResp.status = 500
       /\ \A i \in DOMAIN lastResp.calls : lastResp.calls[i] # "token"
       /\ ~lastResp.exchanged
       /\ lastResp.setSession = NoSet
       /\ lastResp.loc = NoLoc

\* a callback with an undecodable state and a code the provider would accept
C7_Witness ==
    /\ lastResp.flow = "callback"
    /\ lastReq.state.enc = "junk"
    /\ lastReq.code.user \in Users
    /\ lastResp.status = 500

\* C8, as the code has it: when the validation of a session's token fails
\* while a request is resolved, the session cookie is cleared and the
\* unauthenticated dispatch answers (401, the redirect to the provider, or
\* 400 for a redirect_uri off the allow-list), never 500 and never by
\* forwarding; on the callback, a failed validation of the exchanged token
\* is answered 500 and no session cookie is set.
C8_ValidationFailureOutcome ==
    /\ (Served /\ lastResp.valid \in {"failed", "inactive"} /\ lastResp.flow # "callback") =>
          /\ lastResp.flow \in {"unauthenticated", "redirectToProvider"}
          /\ lastResp.status \in {401, 302, 400}
          /\ lastResp.setSession.op = "clear"
          /\ ~lastResp.forwarded
    /\ (lastResp.flow = "callback" /\ lastResp.valid = "failed") =>
          /\ lastResp.status = 500
          /\ lastResp.setSession = NoSet
          /\ ~lastResp.forwarded

\* a request whose session token failed validation while the provider answered
C8_Witness ==
    /\ lastResp.valid = "failed"
    /\ lastResp.flow # "callback"
    /\ lastMode \in Healthy
    /\ lastReq.session # NoCookie

\* C8 as stated: a failed token validation, on any path including the
\* callback, ends in the unauthenticated handling and never in a 500.
C8_ValidationFailureNever500 ==
    (Served /\ lastResp.valid = "failed" /\ lastMode \in Healthy) =>
        /\ lastResp.status # 500
        /\ lastResp.status \in {401, 302}

\* C9: a failed discovery fetch is answered 500 and leaves the cached
\* document empty; a later non-bypassed request fetches again, and when that
\* fetch succeeds the document is cached and the request is handled by its
\* own sub-flow.
C9_DiscoveryFailureRetried ==
    /\ []((Served /\ lastResp.flow = "discovery") =>
            /\ lastResp.status = 500
            /\ toa.DiscoveryDocument.nil
            /\ ~lastResp.forwarded
            /\ lastResp.calls = <<"discovery">>
            /\ lastMode \in Failing)
    /\ [][(toa.DiscoveryDocument.nil /\ now' = now /\ ~Bypassed(lastReq')) =>
            /\ lastResp'.calls # <<>>
            /\ lastResp'.calls[1] = "discovery"
            /\ IF lastMode' \in Failing
               THEN lastResp'.flow = "discovery"
               ELSE lastResp'.flow # "discovery" /\ toa'.DiscoveryDocument = ProviderDoc]_vars

\* a request answered 500 for a failed discovery fetch
C9_Witness ==
    /\ lastResp.flow = "discovery"
    /\ lastResp.status = 500
    /\ toa.DiscoveryDocument.nil

----------------------------------------------------------------------------
(* Properties of concurrent discovery (specification SpecDiscovery) *)

\* the fetches that have returned with a document
Succeeded == {i \in DOMAIN fetches : fetches[i].mode \in Healthy}

\* C10, as the code has it: at most one discovery fetch is in flight at any
\* time, and only under the lock; no fetch is started once one has
\* succeeded, so every fetch but the last has failed, and the document is
\* cached only after a successful fetch.
C10_OneFetchAtATime ==
    /\ Cardinality(inflight) <= 1
    /\ \A p \in inflight : lock = p /\ pc[p] = "fetch"
    /\ \A i \in DOMAIN fetches : i < Len(fetches) => fetches[i].mode \in Failing
    /\ Cardinality(Succeeded) <= 1
    /\ ~toa.DiscoveryDocument.nil => Succeeded = {Len(fetches)}

\* a caller waits for the lock while another caller's fetch is in flight
C10_Witness ==
    \E p, q \in Callers :
        /\ p # q
        /\ pc[p] = "fetch"
        /\ pc[q] = "lock"
        /\ inflight = {p}

\* C10 as stated: callers that run concurrently issue one fetch between
\* them: a caller that was waiting for the lock while a fetch was in flight
\* never fetches again in the same call.
C10_NoDuplicateFetch ==
    \A j \in DOMAIN fetches : j > 1 => fetches[j].by \notin fetches[j - 1].waiting

C34_LoadedDocumentHasJwksUrl ==
    \A p \in Callers :
        pc[p] = "done" =>
            /\ ~toa.DiscoveryDocument.nil
            /\ toa.Jwks.Url # <<>>
            /\ toa.Jwks.Url = toa.DiscoveryDocument.JWKSURI

----------------------------------------------------------------------------
\* a request the configured classifier holds to be programmatic, answered by
\* the unauthenticated dispatch (the login path redirects on its own)
ProgrammaticUnauthenticated ==
    /\ Served
    /\ IsXHRRequestWithHeaders(lastReq, cfg.JsHeaders)
    /\ lastResp.flow \in {"unauthenticated", "redirectToProvider"}
    /\ ~IsLoginRequest(cfg, lastReq)

\* C14: a programmatic request without a valid session that reaches the
\* unauthenticated dispatch is answered 401 and never redirected, whatever
\* UnauthorizedBehavior is configured.
C14_ProgrammaticGets401 ==
    ProgrammaticUnauthenticated =>
        /\ lastResp.status = 401
        /\ lastResp.loc = NoLoc
        /\ lastResp.setVerifier = NoSetVerifier
        /\ ~lastResp.forwarded

\* a programmatic request without a session under the Challenge behaviour
C14_Witness ==
    /\ ProgrammaticUnauthenticated
    /\ cfg.UnauthorizedBehavior = "Challenge"
    /\ lastReq.session = NoCookie
    /\ lastResp.status = 401

\* no template of the allow-list admits the URI
OffList(uri, validUris) ==
    /\ uri # <<>>
    /\ \A i \in DOMAIN validUris : validUris[i] # uri /\ validUris[i] # <<"*">>

\* a login request that names a redirect_uri off ValidPostLoginRedirectUris
LoginOffList ==
    /\ Served
    /\ ~Bypassed(lastReq) /\ ~isCallbackRequest(cfg, lastReq)
    /\ IsLoginRequest(cfg, lastReq)
    /\ OffList(lastReq.redirect_uri, cfg.ValidPostLoginRedirectUris)

\* a logout request that names a return URI off ValidPostLogoutRedirectUris
LogoutOffList ==
    /\ Served
    /\ ~Bypassed(lastReq) /\ ~isCallbackRequest(cfg, lastReq) /\ ~IsLoginRequest(cfg, lastReq)
    /\ HasPrefix(RequestURI(lastReq), cfg.LogoutUri)
    /\ OffList(LogoutRedirectQuery(lastReq), cfg.ValidPostLogoutRedirectUris)

\* the 400 that issues no redirect
RejectedBeforeRedirect ==
    /\ lastResp.status = 400
    /\ lastResp.loc = NoLoc
    /\ lastResp.setVerifier = NoSetVerifier
    /\ ~lastResp.forwarded

\* C17, as the code has it: once the discovery document is available, a
\* login request whose redirect_uri is off ValidPostLoginRedirectUris, and a
\* logout request with a valid session whose redirect_uri (or, without one,
\* post_logout_redirect_uri) is off ValidPostLogoutRedirectUris, is answered
\* 400 with no Location and no PKCE verifier cookie.
C17_OffListRejected ==
    /\ (LoginOffList /\ ~toa.DiscoveryDocument.nil) => RejectedBeforeRedirect
    /\ (LogoutOffList /\ lastResp.valid = "ok" /\ lastResp.session # NoSession) => RejectedBeforeRedirect

\* a logout with a session rejected for its post_logout_redirect_uri
C17_Witness ==
    /\ LogoutOffList
    /\ lastResp.session # NoSession
    /\ lastReq.redirect_uri = <<>>
    /\ lastReq.post_logout_redirect_uri # <<>>
    /\ RejectedBeforeRedirect

\* C17 as stated: every login or logout request that names an off-list
\* redirect URI is answered 400 without Location or verifier cookie
C17_EveryOffListRequest400 ==
    /\ LoginOffList => RejectedBeforeRedirect
    /\ (Served /\ ~Bypassed(lastReq) /\ ~isCallbackRequest(cfg, lastReq) /\ ~IsLoginRequest(cfg, lastReq)
          /\ HasPrefix(RequestURI(lastReq), cfg.LogoutUri)
          /\ (OffList(lastReq.redirect_uri, cfg.ValidPostLogoutRedirectUris)
              \/ OffList(lastReq.post_logout_redirect_uri, cfg.ValidPostLogoutRedirectUris)))
         => RejectedBeforeRedirect

\* the cookies of the forwarded request whose name starts with the prefix
InternalUpstream(rw) ==
    {i \in DOMAIN rw.upstream : HasPrefix(rw.upstream[i].name, <<cfg.CookieNamePrefix>>)}

\* C18: a request the bypass rule matches is forwarded at once with the
\* internal cookies stripped; no discovery fetch or other provider call is
\* made, the gateway's discovery document and key set stay as they are, and
\* the response sets and clears no cookie, whatever the provider does and
\* whether or not the discovery document is loaded.
C18_BypassTouchesNothing ==
    [][(Bypassed(lastReq') /\ lastResp' # NoResp) =>
          /\ lastResp'.forwarded
          /\ lastResp'.status = 0
          /\ lastResp'.calls = <<>>
          /\ lastResp'.setSession = NoSet
          /\ lastResp'.setVerifier = NoSetVerifier
          /\ InternalUpstream(lastResp') = {}
          /\ toa' = toa
          /\ jar' = jar]_vars

\* a bypassed request with cookies, forwarded without the internal ones
\* while the provider is down and no discovery document is loaded
C18_Witness ==
    /\ Bypassed(lastReq)
    /\ lastResp.forwarded
    /\ lastReq.cookies # <<>>
    /\ lastResp.upstream # <<>>
    /\ lastMode = "down"
    /\ toa.DiscoveryDocument.nil

\* the names of a sequence of cookies
CookieNames(pairs) == [i \in DOMAIN pairs |-> pairs[i].name]

\* the cookies of a request whose name does not start with the prefix
OtherCookies(req) ==
    SelectSeq(CookieHeader(cfg, req), LAMBDA p : ~HasPrefix(p.name, <<cfg.CookieNamePrefix>>))

\* C20: a request that reaches the upstream handler, bypassed or
\* authenticated, carries no cookie whose name starts with CookieNamePrefix
\* and carries all its other cookies in their original order.
C20_UpstreamCookies ==
    lastResp.forwarded =>
        /\ InternalUpstream(lastResp) = {}
        /\ CookieNames(lastResp.upstream) = CookieNames(OtherCookies(lastReq))

\* a request answered on the strength of an external session: the session
\* resolved from the authorization header and the request is not a logout
ExternalSessionServed ==
    /\ Served
    /\ lastResp.session # NoSession
    /\ lastResp.session.Id \in ExternalIds
    /\ lastResp.flow \in {"authenticated", "unauthorized"}

\* the claims satisfy every configured assertion
ClaimsAuthorized(claims) ==
    \A i \in DOMAIN cfg.AssertClaims :
        LET a == cfg.AssertClaims[i]
        IN  (a.AnyOf = {} /\ a.AllOf = {})
            \/ /\ a.Name \in DOMAIN claims
               /\ (a.AnyOf = {} \/ claims[a.Name] \cap a.AnyOf # {})
               /\ a.AllOf \subseteq claims[a.Name]

\* C19: for a session that stands for an external authorization header or
\* cookie, the request is forwarded exactly when the claims of this request
\* satisfy the configured assertions and answered 403 otherwise, whatever
\* IsAuthorized the session came with.
C19_ExternalSessionReauthorized ==
    ExternalSessionServed =>
        /\ lastResp.session.IsAuthorized = ClaimsAuthorized(lastResp.claims)
        /\ lastResp.forwarded = ClaimsAuthorized(lastResp.claims)
        /\ ~lastResp.forwarded => lastResp.status = 403

\* an external session that came with IsAuthorized set and is answered 403
\* because the claims of the request do not satisfy the assertions
C19_Witness ==
    /\ ExternalSessionServed
    /\ lastResp.carried
    /\ ~ClaimsAuthorized(lastResp.claims)
    /\ lastResp.status = 403
    /\ ~lastResp.forwarded

\* C26: under TokenValidation Introspection the Login callback stores a
\* session, and redirects to the post-login target, only when the
\* introspection of the exchanged token answered active = true.
C26_SessionOnlyIfActive ==
    (lastResp.flow = "callback" /\ cfg.TokenValidation = "Introspection" /\ lastResp.exchanged) =>
        /\ lastResp.setSession.op = "set" => lastResp.valid = "ok"
        /\ lastResp.status = 302 => lastResp.valid = "ok"

\* the response to the request just served had it carried no redirect_uri,
\* from the state it was served in
WithoutRedirectUri ==
    ServeHTTP(toa, cfg, [lastReq' EXCEPT !.redirect_uri = <<>>], lastMode', now,
              [verifier |-> "v1", nonce |-> Nonce, carried |-> FALSE]).rw

\* C27: redirect_uri bears on the handling of login-path requests only: an
\* unauthenticated request to another path gets the status and the
\* state.RedirectUrl it would have got without the parameter.
C27_RedirectUriOnlyOnLogin ==
    [][(/\ now' = now
        /\ ~IsLoginRequest(cfg, lastReq')
        /\ lastReq'.auth = NoToken
        /\ lastResp'.flow \in {"unauthenticated", "redirectToProvider"})
       => /\ lastResp'.status = WithoutRedirectUri.status
          /\ lastResp'.loc.q.state = WithoutRedirectUri.loc.q.state]_vars

\* a Login callback under PKCE that read the verifier cookie and sent the
\* verifier to the token endpoint
VerifierUsed ==
    /\ lastResp.flow = "callback"
    /\ cfg.UsePkceBool
    /\ lastReq.verifier # NoVerifierCookie
    /\ \E i \in DOMAIN lastResp.calls : lastResp.calls[i] = "token"

\* C30, as the code has it: a Login callback that used the verifier expires
\* the verifier cookie exactly when the exchange succeeded and the validation
\* of the token returned no error, whether or not authorization then passes;
\* when either fails the answer is 500 and carries no Set-Cookie at all.
C30_VerifierClearedOnCompletion ==
    VerifierUsed =>
        IF lastResp.exchanged /\ lastResp.valid # "failed"
        THEN /\ lastResp.setVerifier.op = "clear"
             /\ lastResp.status \in {302, 403}
        ELSE /\ lastResp.status = 500
             /\ lastResp.setVerifier = NoSetVerifier
             /\ lastResp.setSession = NoSet

\* the exchange succeeded and the token failed validation: 500, and the
\* browser keeps the verifier cookie
C30_Witness ==
    /\ VerifierUsed
    /\ lastResp.exchanged
    /\ lastResp.valid = "failed"
    /\ lastResp.status = 500
    /\ jar.verifier = lastReq.verifier

\* C30 as stated: every Login callback that used the verifier expires the
\* verifier cookie, whether exchange and validation succeed or fail.
C30_VerifierAlwaysCleared ==
    VerifierUsed => lastResp.setVerifier.op = "clear"

\* a redirect to the provider under PKCE
PkceRedirect == cfg.UsePkceBool /\ lastResp.flow = "redirectToProvider" /\ lastResp.status = 302

\* a Login callback under PKCE that carries a code
PkceCallback ==
    /\ cfg.UsePkceBool
    /\ lastResp.flow = "callback"
    /\ CallbackState(lastReq).err = ""
    /\ CallbackState(lastReq).state.Action = "Login"
    /\ lastReq.code.present

\* the verifier cookie of the request, decrypted under the gateway's secret
CookieVerifier(req) == Decrypt(req.verifier, cfg.Secret, "")

\* C31: under PKCE the redirect to the provider carries
\* code_challenge_method=S256 and the S256 challenge of the verifier that the
\* verifier cookie of the same response holds encrypted; a callback sends a
\* token request only with the code_verifier decrypted from the cookie; and a
\* callback whose cookie is missing or does not decrypt sends no token
\* request, is answered 500 and sets no session cookie.
C31_PkceVerifierBound ==
    /\ PkceRedirect =>
          /\ lastResp.loc.q.code_challenge_method = "S256"
          /\ lastResp.setVerifier.op = "set"
          /\ Decrypt(lastResp.setVerifier.val, cfg.Secret, "").err = ""
          /\ lastResp.loc.q.code_challenge = S256(Decrypt(lastResp.setVerifier.val, cfg.Secret, "").pt)
    /\ (PkceCallback /\ \E i \in DOMAIN lastResp.calls : lastResp.calls[i] = "token") =>
          /\ CookieVerifier(lastReq).err = ""
          /\ lastResp.sent = CookieVerifier(lastReq).pt
    /\ (PkceCallback /\ CookieVerifier(lastReq).err # "") =>
          /\ \A i \in DOMAIN lastResp.calls : lastResp.calls[i] # "token"
          /\ lastResp.status = 500
          /\ lastResp.setSession = NoSet

\* The URLs the gateway can record in a state under the configurations of
\* the model, whose post-login and post-logout URIs and allow-lists are all
\* relative: URLs on the host of the request (redirectToProvider lines
\* 696-710, handleLogout)
OwnUrl(req, url) == HasPrefix(url, GetFullHost(req))

\* C33: every 302 of the callback sub-flow targets a URL the gateway itself
\* recorded, and a callback whose state names an Action other than Login or
\* Logout neither redirects to the RedirectUrl of that state nor clears the
\* session cookie.
C33_CallbackRedirectsToRecordedUrl ==
    lastResp.flow = "callback" =>
        /\ lastResp.status = 302 => OwnUrl(lastReq, lastResp.loc.base)
        /\ (CallbackState(lastReq).err = "" /\ CallbackState(lastReq).state.Action \notin {"Login", "Logout"}) =>
              /\ ~(lastResp.status = 302 /\ lastResp.loc.base = CallbackState(lastReq).state.RedirectUrl)
              /\ lastResp.setSession.op # "clear"

----------------------------------------------------------------------------
(* Properties of cancellation (specification SpecCancel) *)

\* C32: every outbound provider call is made with the inbound request's
\* context, so that a call in flight when the request is cancelled is
\* aborted: the handler stops waiting for the provider.
C32_CancelAbortsProviderCall ==
    /\ [](\A p \in inflight : CallContext(pc[p]) = "request")
    /\ \A p \in Callers : (p \in cancelled /\ p \in inflight) ~> (p \notin inflight)

----------------------------------------------------------------------------
(* Properties of single calls (specification SpecCalls) *)

\* the call named fn has returned
Returned(fn) == call.fn = fn /\ ret.fn = fn

\* the first parse of a validateTokenLocally call: its keys and its error
FirstLoad == EnsureLoaded(call.t.Jwks, FALSE, call.mode)
FirstParse == ParseWithClaims([call.t EXCEPT !.Jwks = FirstLoad.j], call.c, call.tok, call.time)
ForcedLoad == EnsureLoaded(FirstLoad.j, TRUE, call.mode)

\* C11: one call of the local JWT validation parses at most twice and
\* force-reloads the JWKS at most once: it reloads exactly when the first
\* parse failed, parses a second time exactly when that reload succeeded,
\* and fetches the JWKS at most twice in all.
C11_AtMostOneReloadAndRetry ==
    Returned("validateTokenLocally") =>
        /\ ret.val.parses <= 2
        /\ ret.val.reloads <= 1
        /\ ret.val.reloads = 1 <=> (FirstLoad.err = "" /\ FirstParse # "")
        /\ ret.val.parses = 2 <=> (ret.val.reloads = 1 /\ ForcedLoad.err = "")
        /\ ret.val.parses = 0 <=> FirstLoad.err # ""
        /\ Len(ret.val.calls) <= 2
        /\ \A i \in DOMAIN ret.val.calls : ret.val.calls[i] = "jwks"

\* a call whose first and second parse both failed
C11_Witness ==
    /\ Returned("validateTokenLocally")
    /\ ret.val.parses = 2
    /\ ret.val.reloads = 1
    /\ ~ret.val.ok

\* jwt.ErrTokenExpired as ParseWithClaims reports it
ErrTokenExpired == "token has invalid claims: token is expired"

\* a validateTokenLocally call on a token past its exp whose first parse
\* failed and whose forced reload succeeded
ExpiredAfterReload ==
    /\ Returned("validateTokenLocally")
    /\ call.tok.fmt = "jwt"
    /\ call.time >= call.tok.exp
    /\ FirstLoad.err = ""
    /\ ForcedLoad.err = ""

\* C12 (as amended): when the token is past its exp and signed with a key of
\* the reloaded JWKS, the call parses twice and reports the token as not
\* valid with the expiration error; the expiration error is reported for no
\* token that is not past its exp.
C12_ExpiredReportedAsExpired ==
    /\ (ExpiredAfterReload /\ call.tok.key \in ForcedLoad.j.Keys) =>
           /\ ~ret.val.ok
           /\ ret.val.err = ErrTokenExpired
           /\ ret.val.claims = NoClaims
           /\ ret.val.parses = 2
    /\ (Returned("validateTokenLocally") /\ ret.val.err = ErrTokenExpired) => call.time >= call.tok.exp

\* an expired token of the provider, found expired by both parses
C12_Witness ==
    /\ ExpiredAfterReload
    /\ call.tok.key \in ForcedLoad.j.Keys
    /\ call.tok.aud = ClientId
    /\ ret.val.err = ErrTokenExpired

\* C12 as stated: every token past its exp whose two parses fail around a
\* successful reload is reported with the expiration error
C12_EveryExpiredTokenReportedExpired ==
    (ExpiredAfterReload /\ ret.val.parses = 2 /\ ~ret.val.ok) => ret.val.err = ErrTokenExpired

\* C13: introspection returns an error whenever the answer has no boolean
\* `active` member, and returns the value of `active` with the claims of the
\* answer when it has one.
C13_IntrospectionActiveOrError ==
    Returned("introspectToken") =>
        IF call.resp.err = "" /\ call.resp.json /\ call.resp.active \in {"true", "false"}
        THEN /\ ret.val.err = "" /\ ~ret.val.panic
             /\ ret.val.ok = (call.resp.active = "true")
             /\ ret.val.claims = call.resp.claims
        ELSE ret.val.err # "" /\ ~ret.val.ok /\ ~ret.val.panic

\* the request carries the header h with value v and no other header
OnlyHeader(h, v) == call.req.hdr = [NoHeaders EXCEPT ![h] = v]

\* C15: the classifier the unauthenticated dispatch uses holds a request
\* with only X-Requested-With: XMLHttpRequest to be programmatic, one with
\* Accept: application/json, text/html not to be, and one with only
\* Accept: application/json to be programmatic.
C15_ClassifierCases ==
    Returned("IsXHRRequestWithHeaders") =>
        /\ OnlyHeader("X-Requested-With", <<"XMLHttpRequest">>) => ret.val
        /\ OnlyHeader("Accept", <<"application/json", ", ", "text/html">>) => ~ret.val
        /\ OnlyHeader("Accept", <<"application/json">>) => ret.val

\* template matches value with each * standing for one non-empty run of word
\* symbols and every other symbol for itself: ends is the set of positions
\* of value at which the part matched by a template symbol ends
SegmentsMatch(value, template) ==
    \E ends \in SUBSET (1..Len(value)) :
        /\ Cardinality(ends) = Len(template)
        /\ Len(value) \in ends
        /\ \A e \in ends :
              LET i == Cardinality({x \in ends : x <= e})
                  before == {x \in ends : x < e}
                  start == IF before = {} THEN 1 ELSE 1 + CHOOSE x \in before : \A y \in before : y <= x
              IN  IF template[i] = "*" THEN \A k \in start..e : value[k] \in {"a", "-"}
                  ELSE start = e /\ value[e] = template[i]

\* some template of the allow-list admits the candidate
Admitted(value, validUris) ==
    \E i \in DOMAIN validUris :
        \/ validUris[i] = value
        \/ validUris[i] = <<"*">>
        \/ SegmentsMatch(value, validUris[i])

\* C16: ValidateRedirectUri returns the candidate and no error exactly when
\* it is non-empty and some template equals it, is "*", or matches it with
\* each * standing for one run of [a-zA-Z0-9-_]+, anchored at both ends; the
\* empty string and no error for the empty candidate; the empty string and an
\* error otherwise, as for every non-empty candidate under an empty list.
C16_ValidateRedirectUri ==
    Returned("ValidateRedirectUri") =>
        IF call.redirectUri = <<>> THEN ret.val = [uri |-> <<>>, err |-> ""]
        ELSE IF Admitted(call.redirectUri, call.validUris)
        THEN ret.val = [uri |-> call.redirectUri, err |-> ""]
        ELSE ret.val.uri = <<>> /\ ret.val.err # ""

\* a candidate admitted by a template with two wildcards around a slash
C16_Witness ==
    /\ Returned("ValidateRedirectUri")
    /\ call.validUris = <<(<<"*", "/", "*">>)>>
    /\ call.redirectUri = <<"a", "/", "a">>
    /\ ret.val = [uri |-> call.redirectUri, err |-> ""]

\* the values of the claim at a path, none when the path is missing
ValuesAt(claims, path) == IF path \in DOMAIN claims THEN claims[path] ELSE {}

\* the assertion passes as the four rules of the evaluator have it
Passes(a, claims) ==
    /\ a.AnyOf # {} => \E v \in ValuesAt(claims, a.Name) : v \in a.AnyOf
    /\ a.AllOf # {} => \A v \in a.AllOf : v \in ValuesAt(claims, a.Name)

\* C21: the evaluator returns the conjunction over the configured assertions:
\* a non-empty AnyOf passes exactly when some value of the claim is listed, a
\* non-empty AllOf exactly when every listed value is among the claim's
\* values, an assertion with neither list passes, and an assertion with a
\* list whose claim path is missing fails.
C21_AuthorizationIsConjunction ==
    Returned("isAuthorized") =>
        /\ ret.val = \A i \in DOMAIN call.c.AssertClaims : Passes(call.c.AssertClaims[i], call.claims)
        /\ \A i \in DOMAIN call.c.AssertClaims :
             LET a == call.c.AssertClaims[i]
             IN  /\ a.Name \notin DOMAIN call.claims
                 /\ a.AnyOf \cup a.AllOf # {}
                 => ~ret.val

\* two assertions, the first passing by AnyOf on a string claim, the second
\* failing by AllOf on an array under a dotted path
C21_Witness ==
    /\ Returned("isAuthorized")
    /\ call.c.AssertClaims =
         <<[Name |-> "email", AnyOf |-> {"admin", "alice@example.com"}, AllOf |-> {}],
           [Name |-> "realm_access.roles", AnyOf |-> {}, AllOf |-> {"admin", "alice@example.com"}]>>
    /\ call.claims = [p \in ClaimPaths |-> IF p = "email" THEN {"alice@example.com"} ELSE {"admin"}]
    /\ ret.val = FALSE

RECURSIVE Concat(_)
Concat(chunks) == IF chunks = <<>> THEN <<>> ELSE Head(chunks) \o Concat(Tail(chunks))

\* C23: for a chunk size above zero ChunkString returns chunks whose
\* concatenation in order is the input, each non-empty, all but possibly the
\* last of exactly the chunk size, and none for the empty string.
C23_ChunksPartitionInput ==
    Returned("ChunkString") =>
        /\ Concat(ret.val) = call.input
        /\ \A i \in DOMAIN ret.val : Len(ret.val[i]) > 0
        /\ \A i \in DOMAIN ret.val : i < Len(ret.val) => Len(ret.val[i]) = call.chunkSize
        /\ \A i \in DOMAIN ret.val : Len(ret.val[i]) <= call.chunkSize
        /\ call.input = <<>> => ret.val = <<>>

\* an input of four symbols cut into a full chunk of three and a last of one
C23_Witness ==
    /\ Returned("ChunkString")
    /\ call.input = <<"a", "b", "b", "a">>
    /\ call.chunkSize = 3
    /\ ret.val = << <<"a", "b", "b">>, <<"a">> >>

\* C24: New returns no handler and the error "invalid secret" for the
\* configuration of CreateConfig with a secret that is not 32 bytes long, and
\* no handler and the error about CABundle and CABundleFile for the
\* configuration of CreateConfig with both set and a provider url.
C24_NewRejectsAtStartup ==
    Returned("New") =>
        /\ (\E s \in {"too-short", "MLFs4TT99kOOq8h3UAVRtYoCTDYXiRcZ0"} :
                call.config = [CreateConfig EXCEPT !.Secret = s])
           => ret.val = [handler |-> FALSE, err |-> "invalid secret"]
        /\ call.config = [CreateConfig EXCEPT !.Provider.CABundle = "some-bundle",
                                             !.Provider.CABundleFile = "some-file",
                                             !.Provider.Url = "http://example.com"]
           => ret.val = [handler |-> FALSE,
                         err |-> "you can only use an inline CABundle OR CABundleFile, not both."]

\* the request's path is the callback path and, under an absolute callback
\* URI, its scheme and host, forwarded or its own, are those of that URI
AddressesCallback(c, req) ==
    LET scheme == IF req.xfProto # "" THEN req.xfProto ELSE IF req.tls THEN "https" ELSE "http"
        host == IF req.xfHost # "" THEN req.xfHost ELSE req.host
    IN  /\ req.path = c.CallbackURL.Path
        /\ (c.CallbackURL.Scheme # "" /\ c.CallbackURL.Host # "") =>
              (scheme = c.CallbackURL.Scheme /\ host = c.CallbackURL.Host)

\* C28: a request is handled by the callback sub-flow exactly when it
\* addresses the callback, is not taken by the bypass rule and discovery has
\* succeeded; a bypassed request is forwarded, a failed discovery answered
\* 500, and the login check and the session come only after the callback check.
C28_CallbackDispatch ==
    Returned("ServeHTTP") =>
        LET bypassed == /\ call.c.BypassAuthenticationRule # NoRule
                        /\ HasPrefix(call.req.path, call.c.BypassAuthenticationRule.arg)
        IN  /\ ret.val.flow = "callback" <=>
                  (~bypassed /\ call.mode = "up" /\ AddressesCallback(call.c, call.req))
            /\ bypassed => ret.val.flow = "bypass"
            /\ (~bypassed /\ call.mode = "down") => ret.val.flow = "discovery"
            /\ (~bypassed /\ call.mode = "up" /\ ~AddressesCallback(call.c, call.req)) =>
                  ret.val.flow \in {"redirectToProvider", "unauthenticated"}

\* the callback path asked of another host than that of the absolute
\* callback URI is not a callback: the request is challenged
C28_Witness ==
    /\ Returned("ServeHTTP")
    /\ call.c.CallbackURL.Host = "login.app"
    /\ call.req.path = CallbackPath
    /\ call.req.xfHost = "app"
    /\ call.req.host = "login.app"
    /\ call.req.state # NoStateParam
    /\ call.mode = "up"
    /\ ret.val.flow = "redirectToProvider"
    /\ ret.val.status = 302

\* the header counts towards a programmatic request: it is present, is not
\* an Accept header that names text/html, and holds a configured value
Counts(req, headers, h) ==
    /\ req.hdr[h] # <<>>
    /\ h = "Accept" => ~Contains(req.hdr[h], <<"text/html">>)
    /\ \E i \in DOMAIN headers[h] : Contains(ToLower(req.hdr[h]), ToLower(headers[h][i]))

\* the legacy rule of the classifier
LegacyProgrammatic(req) ==
    \/ req.hdr["X-Requested-With"] = <<"XMLHttpRequest">>
    \/ Contains(req.hdr["Accept"], <<"application/json">>) /\ ~Contains(req.hdr["Accept"], <<"text/html">>)

\* C29: with detection headers configured the classifier answers true
\* exactly when some configured header counts, in whatever order the headers
\* are examined, and agrees with the order-free form the dispatch is
\* modelled with; with none configured it answers by the legacy rule.
C29_ConfiguredClassifier ==
    Returned("IsXHRRequestWithHeaders") =>
        /\ DOMAIN call.headers # {} =>
              ret.val = \E h \in DOMAIN call.headers : Counts(call.req, call.headers, h)
        /\ DOMAIN call.headers = {} => ret.val = LegacyProgrammatic(call.req)
        /\ ret.val = IsXHRRequestWithHeaders(call.req, call.headers)

\* Accept examined first and passed over for its text/html, X-Requested-With
\* examined after it and matching
C29_Witness ==
    /\ Returned("IsXHRRequestWithHeaders")
    /\ ret.order = <<"Accept", "X-Requested-With">>
    /\ call.req.hdr["Accept"] = <<"application/json", ", ", "text/html">>
    /\ call.req.hdr["X-Requested-With"] = <<"XMLHttpRequest">>
    /\ ret.val = TRUE

\* C35: whatever TokenValidation New has accepted, a Login callback whose
\* token exchange succeeds ends with one response and without a crash, and
\* a value other than AccessToken, IdToken or Introspection gives a 500
\* without a validation, a session cookie or a redirect.
C35_CallbackAnswersForEveryTokenValidation ==
    (Returned("ServeHTTP") /\ ret.val.flow = "callback" /\ ret.val.exchanged) =>
        /\ ~ret.val.panic
        /\ ret.val.status \in {302, 403, 500}
        /\ call.c.TokenValidation \notin {"AccessToken", "IdToken", "Introspection"} =>
              /\ ret.val.status = 500
              /\ ret.val.valid = ""
              /\ ret.val.setSession = NoSet

\* the string is what Encrypt returns under the secret for some plaintext
SealedUnder(ciphertext, secret) == ciphertext.fmt = "aead" /\ ciphertext.key = secret

\* C36: Decrypt returns an error, and does not crash, for the empty string
\* and for every string that Encrypt did not produce under the same secret:
\* one that is not base64, one that decodes to fewer bytes than the nonce,
\* one that fails authentication.
C36_DecryptIsTotal ==
    (Returned("Decrypt") /\ ~SealedUnder(call.ciphertext, call.secret)) =>
        /\ ret.val.err # ""
        /\ ret.val.err # "panic"
        /\ ret.val.pt = ""

\* the values a client may send under the listed header names
ClientHeaders == {NoUpstreamHeaders, SpoofedHeaders}

\* the two forwarded requests carry the same values of the configured headers
SameConfiguredHeaders(rw1, rw2) ==
    \A i \in DOMAIN cfg.Headers : rw1.headers[cfg.Headers[i].Name] = rw2.headers[cfg.Headers[i].Name]

\* C37: every request that reaches the upstream carries, for each
\* configured header, a value the gateway alone determines: the request
\* that differs from it only in what the client sent under the configured
\* names is forwarded with the same values of these headers, on the
\* authenticated path and on the bypass path alike.
C37_UpstreamHeadersSetByGateway ==
    [][lastResp'.forwarded =>
          \A custom \in ClientHeaders, ca \in BOOLEAN :
              LET Agree(other) == other.forwarded => SameConfiguredHeaders(lastResp', other)
              IN  Agree(ServeHTTP(toa, cfg, [lastReq' EXCEPT !.custom = custom], lastMode', now,
                                  [verifier |-> "v1", nonce |-> Nonce, carried |-> ca]).rw)]_vars

\* C38: a request with a resolved session is answered by the logout
\* sub-flow only if its path is the configured logout URI; a request whose
\* URI merely begins with the characters of the logout URI, and every
\* request under an empty LogoutUri, is handled as an ordinary authenticated
\* request and, when the session is authorized, forwarded.
C38_LogoutOnlyOnLogoutPath ==
    /\ lastResp.flow = "logout" => (cfg.LogoutUri # <<>> /\ lastReq.path = cfg.LogoutUri)
    /\ (lastResp.session # NoSession /\ lastResp.session.IsAuthorized
            /\ lastResp.flow \notin {"callback", "redirectToProvider", "bypass"}
            /\ (cfg.LogoutUri = <<>> \/ lastReq.path # cfg.LogoutUri)) => lastResp.forwarded

\* the last request was answered by the logout sub-flow
AnsweredByLogout == lastResp.flow = "logout" /\ ~lastResp.panic

\* the response answers the callback of a logout
LogoutCallbackResponse(req, rw) == rw.flow = "callback" /\ req.state.Action = "Logout"

\* C39: the logout sub-flow leaves the session cookie as it is.  Its
\* response sets or clears no session cookie and the client keeps the cookie
\* it sent; a request to a protected path that the client sends next with
\* that cookie, the provider answering as before and the token of the
\* session not yet expired, is forwarded when the session is authorized; and a response that clears the cookie of a
\* resolved session is that of a Logout callback.
C39_LogoutLeavesSessionCookie ==
    /\ [](AnsweredByLogout => lastResp.setSession = NoSet)
    /\ []((lastResp.setSession.op = "clear" /\ lastResp.session # NoSession) =>
              LogoutCallbackResponse(lastReq, lastResp))
    /\ [][AnsweredByLogout' /\ lastResp' # lastResp => jar'.session = jar.session]_vars
    /\ [][(/\ AnsweredByLogout /\ lastResp.status = 302 /\ lastResp.session.IsAuthorized
           /\ lastReq'.session = lastReq.session /\ lastReq'.path = AppPath /\ lastReq'.auth = NoToken
           /\ lastMode' = lastMode /\ now' = now /\ now < UsedToken(cfg, lastReq.session.pt).exp
           /\ <<lastReq', lastResp'>> # <<lastReq, lastResp>>)
              => (lastResp'.forwarded /\ lastResp'.setSession.op # "clear")]_vars

\* a logged-in client has asked for the logout and was redirected to the
\* provider's end-session endpoint; it still holds the session cookie
C39_Witness ==
    /\ AnsweredByLogout
    /\ lastResp.status = 302
    /\ lastReq.session.fmt = "aead"
    /\ lastResp.session.IsAuthorized
    /\ jar.session = lastReq.session

----------------------------------------------------------------------------
(* Properties of the metrics collector (specification SpecMetrics) *)

\* the counters of the four outcomes of a request, and the methods that count them
OutcomeCounters ==
    {"RequestsAuthenticated", "RequestsUnauthenticated", "RequestsUnauthorized", "RequestsBypassed"}
OutcomeMethods == {"AuthenticatedRequest", "UnauthenticatedRequest", "UnauthorizedRequest", "BypassedRequest"}

\* the method that increments the counter
MethodOf(counter) ==
    CASE counter = "RequestsTotal" -> "Request"
      [] counter = "RequestsAuthenticated" -> "AuthenticatedRequest"
      [] counter = "RequestsUnauthenticated" -> "UnauthenticatedRequest"
      [] counter = "RequestsUnauthorized" -> "UnauthorizedRequest"
      [] counter = "RequestsBypassed" -> "BypassedRequest"
      [] counter = "LogoutRequests" -> "Logout"
      [] counter = "SessionsDestroyed" -> "SessionDestroyed"
      [] counter = "SessionRefreshes" -> "SessionRefresh"
      [] counter \in {"ErrorsTotal", "ErrorsInternal"} -> "Error"
      [] OTHER -> ""

\* how many of the first n calls of the sequence are calls of the methods
CallsOf(calls, n, methods) == Cardinality({j \in 1..n : j <= Len(calls) /\ calls[j] \in methods})

\* the calls of the method that have returned, over all callers
RECURSIVE Returns(_, _)
Returns(callers, method) ==
    IF callers = {} THEN 0
    ELSE LET p == CHOOSE q \in callers : TRUE
         IN  CallsOf(rec[p].calls, rec[p].i - 1, {method}) + Returns(callers \ {p}, method)

RECURSIVE Sum(_, _)
Sum(n, counters) ==
    IF counters = {} THEN 0
    ELSE LET k == CHOOSE c \in counters : TRUE IN n[k] + Sum(n, counters \ {k})

\* C40: with metrics enabled and requests served at the same time, every
\* counter holds the number of calls of its Record method that have
\* returned, so no increment is lost; a request calls RecordRequest once and
\* at most one of the four outcome methods; and in every snapshot the four
\* outcome counters sum to at most RequestsTotal and ActiveSessions is not
\* negative.
C40_MetricsCountersConsistent ==
    /\ \A k \in Counters \ {"ActiveSessions"} : metrics.v.n[k] = Returns(Callers, MethodOf(k))
    /\ \A p \in Callers : pc[p] # "start" =>
          /\ CallsOf(rec[p].calls, Len(rec[p].calls), {"Request"}) = 1
          /\ CallsOf(rec[p].calls, Len(rec[p].calls), OutcomeMethods) <= 1
    /\ ret.fn = "GetSnapshot" =>
          /\ Sum(ret.val, OutcomeCounters) <= ret.val["RequestsTotal"]
          /\ ret.val["ActiveSessions"] >= 0

\* both requests were served at the same time and have returned, one of
\* them forwarded after a session refresh and one a logout, and the
\* snapshot taken afterwards shows them
C40_Witness ==
    /\ \A p \in MetricsCallers : pc[p] = "done"
    /\ ret.fn = "GetSnapshot"
    /\ ret.val["RequestsTotal"] = Cardinality(MetricsCallers)
    /\ ret.val["RequestsAuthenticated"] = 1
    /\ ret.val["SessionRefreshes"] = 1
    /\ ret.val["LogoutRequests"] = 1
    /\ ret.val["SessionsDestroyed"] = 1

====
